---- MODULE Spec2Model ----
(***************************************************************************)
(* Model of source/core/gamecard.c: the gamecard detection thread, the     *)
(* bring-up sequence gamecardLoadInfo, gamecardFreeInfo, the storage area  *)
(* handling and the Hash FS partition parsing, together with the public    *)
(* queries that share g_gameCardMutex with the detection thread.           *)
(*                                                                         *)
(* Byte quantities keep the values of the source (page size, header and    *)
(* entry sizes, certificate end).  Two quantities are reduced so that the  *)
(* arithmetic stays inside the model checker's integers: a u64 is a word   *)
(* of U64Bits bits, and the capacity table is scaled by 2^-10.             *)
(***************************************************************************)
EXTENDS Integers, Sequences, FiniteSets, TLC

(* ------------------------------------------------------------------ *)
(* Bounds of the model.                                                 *)
(* ------------------------------------------------------------------ *)
MaxChildren == 2       \* entries of the root partition of a modelled card
MaxLafw == 1           \* largest LAFW version a unit reports
NumClients == 2        \* application threads calling the public interface

(* ------------------------------------------------------------------ *)
(* Program constants.                                                   *)
(* ------------------------------------------------------------------ *)
U64Bits == 30
U64Mod == 2 ^ U64Bits
U64(x) == x % U64Mod

GAMECARD_PAGE_SIZE == 512
GAMECARD_CERTIFICATE_END == 29184          \* GAMECARD_CERTIFICATE_OFFSET + sizeof(FsGameCardCertificate)
GAMECARD_READ_BUFFER_SIZE == 8388608
GAMECARD_UNUSED_AREA_BLOCK_SIZE == 36
HFS_HEADER_SIZE == 16                      \* sizeof(HashFileSystemHeader)
HFS_ENTRY_SIZE == 64                       \* sizeof(HashFileSystemEntry)

GAMECARD_UNUSED_AREA_SIZE(x) == (x \div GAMECARD_PAGE_SIZE) * GAMECARD_UNUSED_AREA_BLOCK_SIZE

GameCardStorageArea_None == 0
GameCardStorageArea_Normal == 1
GameCardStorageArea_Secure == 2

GameCardCapacity_1GiB == 1048576
GameCardCapacity_2GiB == 2097152
GameCardCapacity_4GiB == 4194304
GameCardCapacity_8GiB == 8388608
GameCardCapacity_16GiB == 16777216
GameCardCapacity_32GiB == 33554432

GameCardRomSize_1GiB == 250
GameCardRomSize_2GiB == 248
GameCardRomSize_4GiB == 240
GameCardRomSize_8GiB == 224
GameCardRomSize_16GiB == 225
GameCardRomSize_32GiB == 226

(* GameCardStatus, in the order of the enumeration. *)
GameCardStatus_NotInserted == 0
GameCardStatus_NoGameCardPatchEnabled == 1
GameCardStatus_LotusAsicFirmwareUpdateRequired == 2
GameCardStatus_InsertedAndInfoNotLoaded == 3
GameCardStatus_InsertedAndInfoLoaded == 4

GameCardHashFileSystemPartitionType_Root == 0
GameCardHashFileSystemPartitionType_Count == 6

g_gameCardHfsPartitionNames == <<"root", "update", "logo", "normal", "secure", "boot">>

NULL == [null |-> TRUE]
NULL_NAME == "(null)"        \* a null `name` argument
NULL_HASH == 0               \* a null `hash` argument

IS_ALIGNED(x, a) == x % a = 0
ALIGN_DOWN(x, a) == x - (x % a)
ALIGN_UP(x, a) == U64(((x + (a - 1)) \div a) * a)

(* The lookup with a capacity for the codes the switch does not name. *)
gamecardGetCapacityFromRomSizeValue_Default(rom_size) ==
    CASE rom_size = GameCardRomSize_2GiB -> GameCardCapacity_2GiB
      [] rom_size = GameCardRomSize_4GiB -> GameCardCapacity_4GiB
      [] rom_size = GameCardRomSize_8GiB -> GameCardCapacity_8GiB
      [] rom_size = GameCardRomSize_16GiB -> GameCardCapacity_16GiB
      [] rom_size = GameCardRomSize_32GiB -> GameCardCapacity_32GiB
      [] OTHER -> GameCardCapacity_1GiB

gamecardGetCapacityFromRomSizeValue(rom_size) ==
    CASE rom_size = GameCardRomSize_1GiB -> GameCardCapacity_1GiB
      [] rom_size = GameCardRomSize_2GiB -> GameCardCapacity_2GiB
      [] rom_size = GameCardRomSize_4GiB -> GameCardCapacity_4GiB
      [] rom_size = GameCardRomSize_8GiB -> GameCardCapacity_8GiB
      [] rom_size = GameCardRomSize_16GiB -> GameCardCapacity_16GiB
      [] rom_size = GameCardRomSize_32GiB -> GameCardCapacity_32GiB
      [] OTHER -> 0

(* ------------------------------------------------------------------ *)
(* The cards the environment can put into the slot.  A card is the     *)
(* content the transport returns: the gamecard header fields used by   *)
(* the code, the sizes of its two areas, and the Hash FS headers found *)
(* at the root offset and at each child offset.  The digest of a       *)
(* header stands for the SHA-256 of its hashed window, the hash of an  *)
(* entry for the 32 bytes stored in the parent.                        *)
(* ------------------------------------------------------------------ *)
ROOT_ADDR == 120 * GAMECARD_PAGE_SIZE
CHILD_SLOT == 2 * GAMECARD_PAGE_SIZE
NAME_TABLE_SIZE == 4 * HFS_HEADER_SIZE
ChildNames == <<"update", "normal", "secure", "logo", "boot">>

GlobalDefects ==
    {"none", "head_magic", "rom_size", "zero_secure", "root_addr_low", "root_addr_unaligned",
     "root_addr_beyond", "root_magic", "root_count0", "root_nts0", "root_hash", "root_hash_window"}
ChildDefects ==
    {"name_oob", "name_empty", "name_unknown", "name_dup", "child_magic", "child_count0",
     "child_nts0", "child_hash", "child_hash_window", "child_offset_unaligned",
     "child_size_unaligned", "child_size_beyond"}
RomSizeCodes ==
    {GameCardRomSize_1GiB, GameCardRomSize_2GiB, GameCardRomSize_4GiB,
     GameCardRomSize_8GiB, GameCardRomSize_16GiB, GameCardRomSize_32GiB}

(* Codes of the rom_size byte that the switch does not name. *)
OtherRomSizeCodes == {227, 249, 255}

Cards ==
    [n : 1..MaxChildren, kind : {"none"}, k : {0}, fw : {0}, rom : {GameCardRomSize_1GiB}]
    \cup [n : {1}, kind : GlobalDefects, k : {0}, fw : {0}, rom : {GameCardRomSize_1GiB}]
    \cup [n : {MaxChildren}, kind : ChildDefects, k : 1..MaxChildren, fw : {0},
          rom : {GameCardRomSize_1GiB}]
    \cup [n : {1}, kind : {"none"}, k : {0}, fw : 1..MaxLafw, rom : {GameCardRomSize_1GiB}]
    \cup [n : {1}, kind : {"none"}, k : {0}, fw : {0}, rom : RomSizeCodes \cup OtherRomSizeCodes]

(* The card in the slot is fixed when the code first reads from it: until then, and with
   the slot empty, it is NoCard. *)
NoCard == [n |-> 0, kind |-> "none", k |-> 0, fw |-> 0, rom |-> 0]

RootHeaderBytes(n) == HFS_HEADER_SIZE + (n * HFS_ENTRY_SIZE) + NAME_TABLE_SIZE
CardNormalSize(n) == ROOT_ADDR + GAMECARD_PAGE_SIZE + ((n - 1) * CHILD_SLOT)
(* The card of the largest capacity has a secure area of more than the read buffer holds. *)
CardSecureSize(c) ==
    IF c.kind = "zero_secure" THEN 0
    ELSE IF c.rom = GameCardRomSize_32GiB
    THEN (2 * GAMECARD_READ_BUFFER_SIZE) + (2 * CHILD_SLOT) + GAMECARD_PAGE_SIZE
    ELSE (2 * CHILD_SLOT) + GAMECARD_PAGE_SIZE

(* Root entry i of card c. *)
CardRootEntry(c, i) ==
    LET hit == c.k = i
        base == (i - 1) * CHILD_SLOT
    IN  [ name_offset |-> IF hit /\ c.kind = "name_oob" THEN NAME_TABLE_SIZE ELSE (i - 1) * 8,
          name |-> CASE hit /\ c.kind = "name_empty" -> ""
                     [] hit /\ c.kind = "name_unknown" -> "bogus"
                     [] hit /\ c.kind = "name_dup" -> ChildNames[1]
                     [] OTHER -> ChildNames[i],
          offset |-> IF hit /\ c.kind = "child_offset_unaligned" THEN base + HFS_HEADER_SIZE ELSE base,
          size |-> CASE hit /\ c.kind = "child_size_unaligned" -> CHILD_SLOT + 1
                     [] hit /\ c.kind = "child_size_beyond" -> 8 * CHILD_SLOT
                     [] OTHER -> IF i = c.n THEN 2 * CHILD_SLOT ELSE CHILD_SLOT,
          hash |-> IF hit /\ c.kind \in {"child_hash", "child_hash_window"} THEN 2 ELSE 1,
          hash_target_offset |-> 0,
          hash_target_size |-> IF hit /\ c.kind = "child_hash_window"
                               THEN 2 * GAMECARD_PAGE_SIZE ELSE GAMECARD_PAGE_SIZE ]

(* The Hash FS header stored at the root offset of card c. *)
CardRootHeader(c) ==
    [ magic |-> c.kind # "root_magic",
      entry_count |-> IF c.kind = "root_count0" THEN 0 ELSE c.n,
      name_table_size |-> IF c.kind = "root_nts0" THEN 0 ELSE NAME_TABLE_SIZE,
      entries |-> [i \in 1..c.n |-> CardRootEntry(c, i)],
      digest |-> 1 ]

(* The Hash FS header stored where child i of card c starts. *)
CardChildHeader(c, i) ==
    LET hit == c.k = i
    IN  [ magic |-> ~(hit /\ c.kind = "child_magic"),
          entry_count |-> IF hit /\ c.kind = "child_count0" THEN 0 ELSE 1,
          name_table_size |-> IF hit /\ c.kind = "child_nts0" THEN 0 ELSE 32,
          entries |-> [j \in 1..1 |->
                          [ name_offset |-> 0, name |-> "file", offset |-> 0,
                            size |-> GAMECARD_PAGE_SIZE, hash |-> 1,
                            hash_target_offset |-> 0, hash_target_size |-> GAMECARD_PAGE_SIZE ]],
          digest |-> 1 ]

(* The gamecard header fields of card c (GameCardHeader, after the read at offset 0).
   card_info is the encrypted CardInfo area: the cipher text of a LAFW version f is f + 1,
   so that the all-zero area is no cipher text of any card. *)
CardHeader(c) ==
    [ magic |-> c.kind # "head_magic",
      card_info |-> [cipher |-> c.fw + 1],
      rom_size |-> IF c.kind = "rom_size" THEN 0 ELSE c.rom,
      partition_fs_header_address |->
          CASE c.kind = "root_addr_low" -> GAMECARD_CERTIFICATE_END - GAMECARD_PAGE_SIZE
            [] c.kind = "root_addr_unaligned" -> ROOT_ADDR + HFS_HEADER_SIZE
            [] c.kind = "root_addr_beyond" -> CardNormalSize(c.n) + CardSecureSize(c)
            [] OTHER -> ROOT_ADDR,
      partition_fs_header_size |->
          IF c.kind = "root_hash_window" THEN 2 * GAMECARD_PAGE_SIZE ELSE RootHeaderBytes(c.n),
      partition_fs_header_hash |-> IF c.kind \in {"root_hash", "root_hash_window"} THEN 2 ELSE 1 ]

ZeroHeader ==
    [ magic |-> FALSE, card_info |-> [cipher |-> 0], rom_size |-> 0, partition_fs_header_address |-> 0,
      partition_fs_header_size |-> 0, partition_fs_header_hash |-> 0 ]

(* What a storage read of the Hash FS header at a node's offset returns: idx 0 is the root. *)
CardHfsHeader(c, idx) == IF idx = 0 THEN CardRootHeader(c) ELSE CardChildHeader(c, idx)

ZeroInfoArea == [fw_version |-> 0]

(* aes128CbcDecrypt over the CardInfo area, with the key of keysGetGameCardInfoKey and the
   reversed IV: the plain text of the cipher text above. *)
aes128CbcDecrypt(card_info) ==
    [fw_version |-> IF card_info.cipher = 0 THEN U64Mod - 1 ELSE card_info.cipher - 1]

(* ------------------------------------------------------------------ *)
(* Storage areas.  A transport state x is the part of the shared state *)
(* the storage functions read and write:                               *)
(*   status  g_gameCardStatus                                          *)
(*   handle  g_gameCardHandle.value # 0                                *)
(*   storage serviceIsActive(&g_gameCardStorage.s)                     *)
(*   area    g_gameCardCurrentStorageArea                              *)
(*   live    the open session belongs to the card now in the slot      *)
(* An oracle o says what the transport does during one step:           *)
(*   inserted  a card is in the slot                                   *)
(*   opens     area opens (handle and session both obtained within the *)
(*             tries of gamecardGetHandleAndStorage) that succeed      *)
(*             before one fails                                        *)
(*   retry     the tries of gamecardGetHandleAndStorage that fail, in  *)
(*             an open that succeeds and in one that fails             *)
(*   reads     storage reads / size queries that succeed before one    *)
(*             fails                                                   *)
(*   allocs    allocations that succeed before one fails               *)
(* ------------------------------------------------------------------ *)
(* gamecardCloseHandle by a loop that leaves the handle of a failed try open. *)
gamecardCloseHandle_Kept(handle) == handle

(* Lines 948-954: g_gameCardHandle.value after the call. *)
gamecardCloseHandle(handle) == FALSE

gamecardCloseStorageArea(x) ==
    [x EXCEPT !.storage = FALSE, !.handle = gamecardCloseHandle(x.handle),
              !.area = GameCardStorageArea_None, !.live = FALSE]

(* Line 912: the number of tries of gamecardGetHandleAndStorage. *)
HANDLE_TRIES == 10

(* What one try can come to: fsDeviceOperatorGetGameCardHandle fails ("handle"), it
   succeeds and fsOpenGameCardStorage fails ("storage"), both succeed ("ok"). *)
TryOutcomes == {"handle", "storage", "ok"}

(* The tries of one call that the oracle lets fail: `fails` of them before the one that
   succeeds if the open succeeds, all of them if it fails, each at the call `at`. *)
Retries ==
    { [fails |-> 0, at |-> "handle"], [fails |-> 1, at |-> "storage"],
      [fails |-> HANDLE_TRIES - 1, at |-> "handle"] }

(* The outcomes of the tries of the call that the oracle o decides. *)
TriesOf(o) ==
    [a \in 1..HANDLE_TRIES |->
        IF o.opens > 0 /\ o.inserted /\ a > o.retry.fails THEN "ok" ELSE o.retry.at]

(* The loop of gamecardGetHandleAndStorage at its start: i and rc as in the code, brk
   after the break, handle and storage for g_gameCardHandle and g_gameCardStorage, tries
   the outcomes of the tries to come, ev the calls made so far, in order. *)
LoopStart(handle, storage, tries) ==
    [i |-> 0, rc |-> TRUE, brk |-> FALSE, handle |-> handle, storage |-> storage,
     tries |-> tries, ev |-> <<>>]

(* The events of gamecardCloseHandle: svcCloseHandle is called for a handle that is set. *)
CloseHandleEvents(handle) == IF handle THEN <<"close">> ELSE <<>>

(* Line 915: the calls made so far and the sleep after a try that failed. *)
LoopSleep(st) == st.ev \o (IF st.rc THEN <<>> ELSE <<"sleep">>)

(* Lines 914-936: one pass of the body of the loop.  A failed
   fsDeviceOperatorGetGameCardHandle leaves g_gameCardHandle as it was. *)
LoopTry(st) ==
    IF st.tries[st.i + 1] = "handle"
    THEN [st EXCEPT !.i = @ + 1, !.rc = FALSE, !.ev = LoopSleep(st) \o <<"handle_fail">>]
    ELSE IF st.tries[st.i + 1] = "storage"
    THEN [st EXCEPT !.i = @ + 1, !.rc = FALSE, !.handle = gamecardCloseHandle(TRUE),
                    !.ev = LoopSleep(st) \o <<"handle", "storage_fail">>
                              \o CloseHandleEvents(TRUE)]
    ELSE [st EXCEPT !.rc = TRUE, !.brk = TRUE, !.handle = TRUE, !.storage = TRUE,
                    !.ev = LoopSleep(st) \o <<"handle", "storage">>]

(* Lines 912 and 936: the loop is left. *)
LoopDone(st) == st.brk \/ st.i >= HANDLE_TRIES

(* Lines 912-937: the loop, from the state st on. *)
RECURSIVE GetHandleAndStorageLoop(_)
GetHandleAndStorageLoop(st) ==
    IF LoopDone(st) THEN st ELSE GetHandleAndStorageLoop(LoopTry(st))

(* The status is set whatever it was when the tries are used up. *)
PatchStatusSet_AnyStatus(status, partition) == partition = 0

(* The status is set whatever the area that could not be opened. *)
PatchStatusSet_AnyArea(status, partition) == status = GameCardStatus_InsertedAndInfoNotLoaded

(* Line 942: the status becomes NoGameCardPatchEnabled. *)
PatchStatusSet(status, partition) ==
    status = GameCardStatus_InsertedAndInfoNotLoaded /\ partition = 0

(* Lines 939-945: st is what the loop has come to.  x.denied notes, for the caller's
   log, the area whose handle and session could not be had. *)
GetHandleAndStorageDone(x, partition, o, st) ==
    IF st.rc
    THEN [ok |-> TRUE, x |-> [x EXCEPT !.handle = TRUE, !.storage = TRUE, !.live = TRUE],
          o |-> [o EXCEPT !.opens = o.opens - 1], ev |-> st.ev]
    ELSE [ok |-> FALSE,
          x |-> [x EXCEPT !.handle = st.handle, !.storage = st.storage,
                          !.denied = partition + 1,
                          !.status = IF PatchStatusSet(x.status, partition)
                                     THEN GameCardStatus_NoGameCardPatchEnabled
                                     ELSE x.status],
          o |-> o, ev |-> st.ev]

gamecardGetHandleAndStorage(x, partition, o) ==
    IF x.status < GameCardStatus_InsertedAndInfoNotLoaded \/ partition > 1
    THEN [ok |-> FALSE, x |-> x, o |-> o, ev |-> <<>>]
    ELSE GetHandleAndStorageDone(
             x, partition, o,
             GetHandleAndStorageLoop(LoopStart(x.handle, x.storage, TriesOf(o))))

(* The area made current whether or not handle and session are there. *)
OpenedStorageArea_Always(r, area) == [r EXCEPT !.x.area = area]

(* Lines 972-980: the area is current once handle and session are there. *)
OpenedStorageArea(r, area) == IF r.ok THEN [r EXCEPT !.x.area = area] ELSE r

gamecardOpenStorageArea(x, area, o) ==
    IF x.status < GameCardStatus_InsertedAndInfoNotLoaded
       \/ (area # GameCardStorageArea_Normal /\ area # GameCardStorageArea_Secure)
    THEN [ok |-> FALSE, x |-> x, o |-> o, ev |-> <<>>]
    ELSE IF x.handle /\ x.storage /\ x.area = area
         THEN [ok |-> TRUE, x |-> x, o |-> o, ev |-> <<>>]
         ELSE OpenedStorageArea(
                  gamecardGetHandleAndStorage(gamecardCloseStorageArea(x), area - 1, o), area)

(* fsStorageRead on the open session: it succeeds while the oracle lets it and the session
   is that of the inserted card. *)
fsStorageRead(x, o) == x.storage /\ x.live /\ o.inserted /\ o.reads > 0

(* The oracle after one more storage read or size query. *)
SpendRead(o) == [o EXCEPT !.reads = IF @ > 0 THEN @ - 1 ELSE 0]

(* What gamecardReadStorageArea did at the transport, in order.  An entry of kind "open" is
   the call of gamecardOpenStorageArea(area) at line 1014 and its result rc, with the
   offset and the read_size the call of gamecardReadStorageArea has there, the place dst
   of out_u8 in the caller's buffer, and the numbers of tries, of sleeps and of handles
   closed in its gamecardGetHandleAndStorage (all 0 if the area was open).  An entry of kind "read" is an
   fsStorageRead of `size` bytes at `offset` of the open area, into the caller's buffer
   (direct) or into g_gameCardReadBuf, and its result rc; of the bytes read, the `len` bytes
   from position `skip` on are those that reach the caller's buffer, at position `dst`
   (none if the read failed). *)
EventCount(ev, kinds) == Cardinality({p \in 1..Len(ev) : ev[p] \in kinds})

OpenOp(area, rc, ev, offset, read_size, out_u8) ==
    [kind |-> "open", area |-> area, offset |-> offset, size |-> read_size, direct |-> FALSE,
     dst |-> out_u8,
     skip |-> 0, len |-> 0, rc |-> rc, tries |-> EventCount(ev, {"handle", "handle_fail"}),
     sleeps |-> EventCount(ev, {"sleep"}), closes |-> EventCount(ev, {"close"})]

ReadOp(area, offset, size, direct, dst, skip, len, rc) ==
    [kind |-> "read", area |-> area, offset |-> offset, size |-> size, direct |-> direct,
     dst |-> dst, skip |-> skip, len |-> IF rc THEN len ELSE 0, rc |-> rc, tries |-> 0,
     sleeps |-> 0, closes |-> 0]

ReadResult(ok, x, o, ops) == [ok |-> ok, x |-> x, o |-> o, ops |-> ops]

(* The reads a chunked read has issued go before those of the rest of it. *)
PrependOps(ops, r) == [r EXCEPT !.ops = ops \o r.ops]

(* A call that is handed out + d as its buffer writes d bytes further on. *)
ShiftOut(r, d) == [r EXCEPT !.ops = [p \in 1..Len(r.ops) |-> [r.ops[p] EXCEPT !.dst = @ + d]]]

(* gamecardReadStorageArea(out, read_size, offset), out non-null.  g is the geometry
   [normal, secure, total].  The result carries the transport calls made, in order, with
   the places in `out` they fill, counted from `out`. *)
RECURSIVE gamecardReadStorageArea(_, _, _, _, _)

(* Lines 1034-1054: the read through g_gameCardReadBuf of a block that is not page
   aligned, and of what follows it if the block is larger than the buffer. *)
ReadStorageAreaUnaligned(x, g, read_size, offset, o, area, ops, out_u8, block_start_offset, block_size, data_start_offset) ==
    IF block_size <= GAMECARD_READ_BUFFER_SIZE
    THEN ReadResult(fsStorageRead(x, o), x, SpendRead(o),
                    Append(ops, ReadOp(area, block_start_offset, block_size, FALSE, out_u8,
                                       data_start_offset, read_size, fsStorageRead(x, o))))
    ELSE IF ~fsStorageRead(x, o)
    THEN ReadResult(FALSE, x, SpendRead(o),
                    Append(ops, ReadOp(area, block_start_offset, GAMECARD_READ_BUFFER_SIZE,
                                       FALSE, out_u8, data_start_offset,
                                       GAMECARD_READ_BUFFER_SIZE - data_start_offset, FALSE)))
    ELSE PrependOps(
             Append(ops, ReadOp(area, block_start_offset, GAMECARD_READ_BUFFER_SIZE, FALSE,
                                out_u8, data_start_offset,
                                GAMECARD_READ_BUFFER_SIZE - data_start_offset, TRUE)),
             ShiftOut(gamecardReadStorageArea(
                          x, g, read_size - (GAMECARD_READ_BUFFER_SIZE - data_start_offset),
                          U64(offset + (GAMECARD_READ_BUFFER_SIZE - data_start_offset)),
                          SpendRead(o)),
                      out_u8 + (GAMECARD_READ_BUFFER_SIZE - data_start_offset)))

(* A block taken from the start of the read buffer. *)
DataStartOffset_Zero(base_offset, block_start_offset) == 0

(* Line 1040: where in the block read the bytes asked for begin. *)
DataStartOffset(base_offset, block_start_offset) == base_offset - block_start_offset

(* Line 1021: the read is made straight into the caller's buffer. *)
ReadIsAligned(base_offset, read_size) ==
    base_offset % GAMECARD_PAGE_SIZE = 0 /\ read_size % GAMECARD_PAGE_SIZE = 0

(* Lines 1021-1055: the read at base_offset of the open area. *)
ReadStorageAreaAt(x, g, read_size, offset, o, area, ops, out_u8, base_offset) ==
    IF ReadIsAligned(base_offset, read_size)
    THEN ReadResult(fsStorageRead(x, o), x, SpendRead(o),
                    Append(ops, ReadOp(area, base_offset, read_size, TRUE, out_u8, 0, read_size,
                                       fsStorageRead(x, o))))
    ELSE ReadStorageAreaUnaligned(
             x, g, read_size, offset, o, area, ops, out_u8,
             ALIGN_DOWN(base_offset, GAMECARD_PAGE_SIZE),
             U64(ALIGN_UP(base_offset + read_size, GAMECARD_PAGE_SIZE)
                 - ALIGN_DOWN(base_offset, GAMECARD_PAGE_SIZE)),
             DataStartOffset(base_offset, ALIGN_DOWN(base_offset, GAMECARD_PAGE_SIZE)))

(* Lines 1012-1055: `opened` is what gamecardOpenStorageArea(area) returned. *)
ReadStorageAreaOpened(opened, g, read_size, offset, area, ops, out_u8) ==
    IF ~opened.ok
    THEN ReadResult(FALSE, opened.x, opened.o,
                    Append(ops, OpenOp(area, FALSE, opened.ev, offset, read_size, out_u8)))
    ELSE ReadStorageAreaAt(opened.x, g, read_size, offset, opened.o, area,
                           Append(ops, OpenOp(area, TRUE, opened.ev, offset, read_size, out_u8)),
                           out_u8,
                           IF area = GameCardStorageArea_Normal THEN offset
                                                                ELSE offset - g.normal)

(* The failure of the read of the part in the normal area passed over. *)
FirstPartFailed_Ignored(first) == FALSE

(* Line 1003: the read of the part in the normal area failed. *)
FirstPartFailed(first) == ~first.ok

(* Lines 1003-1009: `first` is what the read of the part in the normal area returned,
   out_u8 the place of the part in the secure area in the caller's buffer. *)
ReadStorageAreaSecond(first, g, read_size, offset, out_u8) ==
    IF FirstPartFailed(first) THEN first
    ELSE ReadStorageAreaOpened(
             gamecardOpenStorageArea(first.x, GameCardStorageArea_Secure, first.o),
             g, read_size, offset, GameCardStorageArea_Secure, first.ops, out_u8)

(* The part in the secure area written where the part in the normal area begins. *)
SecondPartOut_Unmoved(diff_size) == 0

(* Line 1008: out_u8 += diff_size. *)
SecondPartOut(diff_size) == diff_size

(* Lines 985-1012. *)
gamecardReadStorageArea(x, g, read_size, offset, o) ==
    IF x.status < GameCardStatus_InsertedAndInfoNotLoaded \/ g.normal = 0 \/ g.secure = 0
       \/ read_size = 0 \/ U64(offset + read_size) > g.total
    THEN ReadResult(FALSE, x, o, <<>>)
    ELSE IF offset < g.normal /\ U64(offset + read_size) > g.normal
    THEN ReadStorageAreaSecond(gamecardReadStorageArea(x, g, g.normal - offset, offset, o),
                               g, read_size - (g.normal - offset), g.normal,
                               SecondPartOut(g.normal - offset))
    ELSE IF offset < g.normal
    THEN ReadStorageAreaOpened(gamecardOpenStorageArea(x, GameCardStorageArea_Normal, o),
                               g, read_size, offset, GameCardStorageArea_Normal, <<>>, 0)
    ELSE ReadStorageAreaOpened(gamecardOpenStorageArea(x, GameCardStorageArea_Secure, o),
                               g, read_size, offset, GameCardStorageArea_Secure, <<>>, 0)

(* ------------------------------------------------------------------ *)
(* Hash FS partitions.                                                  *)
(* ------------------------------------------------------------------ *)
(* The index of name in g_gameCardHfsPartitionNames (the loop of lines 1174-1177):
   GameCardHashFileSystemPartitionType_Count when there is none. *)
HfsPartitionType(name) ==
    LET hits == {i \in 0..(GameCardHashFileSystemPartitionType_Count - 1) :
                    g_gameCardHfsPartitionNames[i + 1] = name}
    IN  IF hits = {} THEN GameCardHashFileSystemPartitionType_Count
        ELSE CHOOSE i \in hits : \A j \in hits : i <= j

HfsHeaderSize(hdr) ==
    ALIGN_UP(HFS_HEADER_SIZE + (hdr.entry_count * HFS_ENTRY_SIZE) + hdr.name_table_size,
             GAMECARD_PAGE_SIZE)

(* The SHA-256 check never made. *)
HfsHashChecked_Never(hash, hash_target_offset, hash_target_size, header_size) == FALSE

(* The SHA-256 check of lines 1231-1239 is made. *)
HfsHashChecked(hash, hash_target_offset, hash_target_size, header_size) ==
    /\ hash # NULL_HASH
    /\ hash_target_size # 0
    /\ U64(hash_target_offset + hash_target_size) <= header_size

(* The argument check without its test of the alignment of the offset. *)
HfsArgsInvalid_NoAlignment(name, offset, size, total) ==
    \/ name = ""
    \/ offset < GAMECARD_CERTIFICATE_END
    \/ (size # 0 /\ (~IS_ALIGNED(size, GAMECARD_PAGE_SIZE) \/ U64(offset + size) > total))

(* The argument check of lines 1150-1151. *)
HfsArgsInvalid(name, offset, size, total) ==
    \/ name = ""
    \/ offset < GAMECARD_CERTIFICATE_END
    \/ ~IS_ALIGNED(offset, GAMECARD_PAGE_SIZE)
    \/ (size # 0 /\ (~IS_ALIGNED(size, GAMECARD_PAGE_SIZE) \/ U64(offset + size) > total))

(* Lines 1158, 1166 and 1216: the allocations a context takes. *)
ALLOCS_PER_CONTEXT == 3

(* The allocations of a context: fs_ctx (line 1158), its name (1166), its header (1216). *)
CtxAllocs == <<"fs_ctx", "name", "header">>
CtxHeld(n) == {CtxAllocs[k] : k \in 1..n}

(* `end` freeing nothing. *)
HfsFreed_Nothing(held) == {}

(* Lines 1257-1267: what `end` frees of the allocations held when success is false. *)
HfsFreed(held) ==
    IF "fs_ctx" \in held
    THEN {"fs_ctx"} \cup (held \cap {"header"}) \cup (held \cap {"name"})
    ELSE {}

(* A call of gamecardInitializeHashFileSystemContext that fails holding the allocations
   `held`, with transport state x; `at` names the check that failed, as the message logged
   does ("hash": the SHA-256 mismatch).  The result says which allocations are left, and
   whether the SHA-256 of the header was computed. *)
HfsFailed(x, held, at) ==
    [ctx |-> NULL, x |-> x, mismatch |-> at = "hash", at |-> at, verified |-> at = "hash",
     held |-> held \ HfsFreed(held)]

(* Lines 1150-1154: the arguments are invalid, nothing is allocated. *)
HfsFail(x) == HfsFailed(x, {}, "args")

(* Every context given the name of the root partition. *)
HfsName_Root(name) == g_gameCardHfsPartitionNames[GameCardHashFileSystemPartitionType_Root + 1]

(* Line 1166: the name of the context. *)
HfsName(name) ==
    IF name # NULL_NAME THEN name
    ELSE g_gameCardHfsPartitionNames[GameCardHashFileSystemPartitionType_Root + 1]

(* Lines 1241-1262: the context handed out.  The size of the root partition is where its
   last entry ends. *)
HfsContext(name, offset, size, hdr, header_size) ==
    [ name |-> HfsName(name), type |-> HfsPartitionType(HfsName(name)), offset |-> offset,
      size |-> IF name # NULL_NAME THEN size
               ELSE U64(header_size + hdr.entries[hdr.entry_count].offset
                        + hdr.entries[hdr.entry_count].size),
      header_size |-> header_size, header |-> hdr ]

(* Lines 1223-1262: `full` is what the read of the full header returned. *)
HfsVerify(name, offset, size, hash, hash_target_offset, hash_target_size, full, hdr, header_size) ==
    IF ~full.ok THEN HfsFailed(full.x, CtxHeld(3), "full")
    ELSE IF HfsHashChecked(hash, hash_target_offset, hash_target_size, header_size)
            /\ hdr.digest # hash
    THEN HfsFailed(full.x, CtxHeld(3), "hash")
    ELSE [ctx |-> HfsContext(name, offset, size, hdr, header_size), x |-> full.x,
          mismatch |-> FALSE, at |-> "",
          verified |-> HfsHashChecked(hash, hash_target_offset, hash_target_size, header_size),
          held |-> CtxHeld(3)]

(* An entry count of 0 allowed for no partition. *)
HfsCountsInvalid_AnyNode(name, hdr) == hdr.entry_count = 0 \/ hdr.name_table_size = 0

(* Line 1204: the entry count or the size of the name table is invalid. *)
HfsCountsInvalid(name, hdr) ==
    (name = NULL_NAME /\ hdr.entry_count = 0) \/ hdr.name_table_size = 0

(* Lines 1186-1228: `partial` is what the read of the first HFS_HEADER_SIZE bytes returned,
   allocs the number of allocations that succeed. *)
HfsParse(name, offset, size, hash, hash_target_offset, hash_target_size, partial, g, allocs, hdr) ==
    IF ~partial.ok THEN HfsFailed(partial.x, CtxHeld(2), "partial")
    ELSE IF ~hdr.magic THEN HfsFailed(partial.x, CtxHeld(2), "magic")
    ELSE IF HfsCountsInvalid(name, hdr) THEN HfsFailed(partial.x, CtxHeld(2), "counts")
    ELSE IF allocs < ALLOCS_PER_CONTEXT THEN HfsFailed(partial.x, CtxHeld(2), "header_alloc")
    ELSE HfsVerify(name, offset, size, hash, hash_target_offset, hash_target_size,
                   gamecardReadStorageArea(partial.x, g, HfsHeaderSize(hdr), offset, partial.o),
                   hdr, HfsHeaderSize(hdr))

(* gamecardInitializeHashFileSystemContext.  hdr is the header the card holds at offset;
   o.allocs is the number of allocations that succeed before one fails.  The result is
   the context (NULL on failure: everything allocated on the way is freed again at `end`),
   the transport state, and whether the failure was a hash mismatch. *)
gamecardInitializeHashFileSystemContext(name, offset, size, hash, hash_target_offset, hash_target_size, x, g, o, hdr) ==
    IF HfsArgsInvalid(name, offset, size, g.total) THEN HfsFail(x)
    ELSE IF o.allocs < ALLOCS_PER_CONTEXT - 1 THEN HfsFailed(x, CtxHeld(o.allocs), "alloc")
    ELSE IF HfsPartitionType(HfsName(name)) >= GameCardHashFileSystemPartitionType_Count
    THEN HfsFailed(x, CtxHeld(2), "type")
    ELSE HfsParse(name, offset, size, hash, hash_target_offset, hash_target_size,
                  gamecardReadStorageArea(x, g, HFS_HEADER_SIZE, offset, o), g, o.allocs, hdr)

(* fsStorageGetSize on the open session of card c. *)
fsStorageGetSize(x, c) ==
    IF x.area = GameCardStorageArea_Normal THEN CardNormalSize(c.n) ELSE CardSecureSize(c)

(* Lines 1087-1095: `opened` is what gamecardOpenStorageArea returned; the size of the
   area, 0 on failure. *)
StorageAreaSizeOpened(opened, c) ==
    IF ~opened.ok THEN [size |-> 0, x |-> opened.x, o |-> opened.o]
    ELSE [size |-> IF fsStorageRead(opened.x, opened.o) THEN fsStorageGetSize(opened.x, c)
                                                        ELSE 0,
          x |-> gamecardCloseStorageArea(opened.x), o |-> SpendRead(opened.o)]

(* One iteration of the loop of gamecardGetStorageAreasSizes. *)
StorageAreaSize(x, area, o, c) == StorageAreaSizeOpened(gamecardOpenStorageArea(x, area, o), c)

(* The second iteration and line 1105: n and s are the results for the two areas. *)
StorageAreasSizesSecure(n, s, g) ==
    IF s.size = 0 THEN [ok |-> FALSE, x |-> s.x, g |-> [g EXCEPT !.normal = n.size]]
    ELSE [ok |-> TRUE, x |-> s.x,
          g |-> [normal |-> n.size, secure |-> s.size, total |-> U64(n.size + s.size)]]

(* From the end of the first iteration on. *)
StorageAreasSizesNormal(n, g, c) ==
    IF n.size = 0 THEN [ok |-> FALSE, x |-> n.x, g |-> g]
    ELSE StorageAreasSizesSecure(n, StorageAreaSize(n.x, GameCardStorageArea_Secure, n.o, c), g)

(* gamecardGetStorageAreasSizes: the geometry it leaves, starting from geometry g. *)
gamecardGetStorageAreasSizes(x, g, o, c) ==
    StorageAreasSizesNormal(StorageAreaSize(x, GameCardStorageArea_Normal, o, c), g, c)

(* ------------------------------------------------------------------ *)
(* State.                                                               *)
(* ------------------------------------------------------------------ *)
VARIABLES
    g_gameCardMutex,                  \* MUTEX_FREE, or the thread holding it
    g_gameCardInterfaceInit,
    g_gameCardDetectionThreadCreated,
    g_gameCardReadBuf,                \* the scratch buffer is allocated
    g_openDeviceOperator,
    g_openEventNotifier,
    g_loadKernelEvent,
    g_lafwVersion,
    g_gameCardStatus,
    g_gameCardHandle,                 \* g_gameCardHandle.value # 0
    g_gameCardStorage,                \* serviceIsActive(&g_gameCardStorage.s)
    g_gameCardCurrentStorageArea,
    g_gameCardHeader,
    g_gameCardInfoArea,
    g_gameCardNormalAreaSize,
    g_gameCardSecureAreaSize,
    g_gameCardTotalSize,
    g_gameCardCapacity,
    g_gameCardHfsCount,
    g_gameCardHfsCtx,                 \* NULL, or the array: a sequence of contexts / NULL
    heap,                             \* indices of the Hash FS contexts that are allocated
    badFree,                          \* a context was freed that was not allocated
    g_gameCardKernelEvent,            \* the detection event is signalled
    g_gameCardDetectionThreadExitEvent,
    g_gameCardStatusChangeEvent,
    tpc,                              \* where the detection thread is
    root_fs_ctx,                      \* locals of gamecardLoadInfo
    i,
    log,                              \* steps of the detection thread since it last took the mutex
    signals,                          \* status change signals since it last took the mutex
    inserted,                         \* environment: a card is in the slot
    card,                             \*              which one
    live,                             \*              the open session is that card's
    sxos,                             \*              the custom firmware is SX OS
    cpc,                              \* what each client thread is doing
    call,                             \* the gamecardReadStorage call a client is in
    hfsdev,                           \* the device of a mounted Hash FS partition
    loop,                             \* a run of the loop of gamecardGetHandleAndStorage
    parse,                            \* a call of gamecardInitializeHashFileSystemContext
    iface                             \* the resources gamecardInitialize and gamecardExit hold

ifaceVars == <<g_gameCardInterfaceInit, g_gameCardDetectionThreadCreated, g_gameCardReadBuf,
               g_openDeviceOperator, g_openEventNotifier, g_loadKernelEvent, g_lafwVersion>>
infoVars == <<g_gameCardHeader, g_gameCardInfoArea, g_gameCardNormalAreaSize,
              g_gameCardSecureAreaSize, g_gameCardTotalSize, g_gameCardCapacity>>
hfsVars == <<g_gameCardHfsCount, g_gameCardHfsCtx, heap, badFree>>
xVars == <<g_gameCardStatus, g_gameCardHandle, g_gameCardStorage,
           g_gameCardCurrentStorageArea, live>>
evVars == <<g_gameCardKernelEvent, g_gameCardDetectionThreadExitEvent,
            g_gameCardStatusChangeEvent>>
loadVars == <<root_fs_ctx, i>>
fixedVars == <<sxos, hfsdev, loop, parse, iface>>    \* what no step of the gamecard interface changes
envVars == <<inserted, card, fixedVars>>
cliVars == <<cpc, call>>
vars == <<g_gameCardMutex, ifaceVars, infoVars, hfsVars, xVars, evVars, tpc, loadVars, log,
          signals, envVars, cliVars>>

Clients == 1..NumClients
MUTEX_FREE == 0
DetThread == NumClients + 1

(* The transport state and the geometry, as the storage functions take them. *)
X == [status |-> g_gameCardStatus, handle |-> g_gameCardHandle, storage |-> g_gameCardStorage,
      area |-> g_gameCardCurrentStorageArea, live |-> live,
      denied |-> GameCardStorageArea_None]
G == [normal |-> g_gameCardNormalAreaSize, secure |-> g_gameCardSecureAreaSize,
      total |-> g_gameCardTotalSize]

SetX(x) ==
    /\ g_gameCardStatus' = x.status
    /\ g_gameCardHandle' = x.handle
    /\ g_gameCardStorage' = x.storage
    /\ g_gameCardCurrentStorageArea' = x.area
    /\ live' = x.live

SetG(g) ==
    /\ g_gameCardNormalAreaSize' = g.normal
    /\ g_gameCardSecureAreaSize' = g.secure
    /\ g_gameCardTotalSize' = g.total

MaxOpens == 2
MaxReads == 2
(* The oracles of a step that opens at most `opens` areas, makes at most `reads` storage
   reads and allocates (allocs) or not: more successes than the step has use for change
   nothing. *)
Oracles(opens, reads, allocs) ==
    [inserted : {inserted},
     retry : Retries,
     opens : 0..(IF opens < MaxOpens THEN opens ELSE MaxOpens),
     reads : 0..(IF reads < MaxReads THEN reads ELSE MaxReads),
     allocs : IF allocs THEN {0, ALLOCS_PER_CONTEXT - 1, ALLOCS_PER_CONTEXT}
                        ELSE {ALLOCS_PER_CONTEXT}]

(* No call of gamecardReadStorage is being made. *)
NoCall == [out |-> FALSE, size |-> 0, offset |-> 0, ok |-> FALSE, ops |-> <<>>]

InterfaceInit ==
    /\ g_gameCardMutex = MUTEX_FREE
    /\ g_gameCardInterfaceInit = FALSE
    /\ g_gameCardDetectionThreadCreated = FALSE
    /\ g_gameCardReadBuf = FALSE
    /\ g_openDeviceOperator = FALSE
    /\ g_openEventNotifier = FALSE
    /\ g_loadKernelEvent = FALSE
    /\ g_lafwVersion = 0
    /\ g_gameCardStatus = GameCardStatus_NotInserted
    /\ g_gameCardHandle = FALSE
    /\ g_gameCardStorage = FALSE
    /\ g_gameCardCurrentStorageArea = GameCardStorageArea_None
    /\ g_gameCardHeader = ZeroHeader
    /\ g_gameCardInfoArea = ZeroInfoArea
    /\ g_gameCardNormalAreaSize = 0
    /\ g_gameCardSecureAreaSize = 0
    /\ g_gameCardTotalSize = 0
    /\ g_gameCardCapacity = 0
    /\ g_gameCardHfsCount = 0
    /\ g_gameCardHfsCtx = NULL
    /\ heap = {}
    /\ badFree = FALSE
    /\ g_gameCardKernelEvent = FALSE
    /\ g_gameCardDetectionThreadExitEvent = FALSE
    /\ g_gameCardStatusChangeEvent = FALSE
    /\ tpc = "none"
    /\ root_fs_ctx = NULL
    /\ i = 0
    /\ log = <<>>
    /\ signals = 0
    /\ inserted \in BOOLEAN
    /\ card = NoCard
    /\ live = FALSE
    /\ sxos \in BOOLEAN
    /\ cpc = [c \in Clients |-> "idle"]
    /\ call = NoCall

(* No partition is mounted. *)
NoDevice == [mounted |-> FALSE]

(* The loop of gamecardGetHandleAndStorage is not run on its own. *)
NoLoop == LoopStart(FALSE, FALSE, <<>>)

(* gamecardInitializeHashFileSystemContext is not called on its own. *)
NoParse == [done |-> TRUE]

(* The resources of the interface before the first call of gamecardInitialize (lines
   106-127): nothing is allocated, open or running. *)
NoIface ==
    [init |-> FALSE, thread |-> FALSE, readbuf |-> 0, devop |-> FALSE, notifier |-> FALSE,
     kevent |-> FALSE, lafw |-> 0, status |-> GameCardStatus_NotInserted,
     bufs |-> {}, threads |-> 0, devops |-> 0, notifiers |-> 0, kevents |-> 0,
     fn |-> "", was |-> FALSE, ret |-> FALSE, did |-> {}, reinit |-> FALSE]

Init ==
    InterfaceInit /\ hfsdev = NoDevice /\ loop = NoLoop /\ parse = NoParse /\ iface = NoIface

(* gamecardGetHandleAndStorage is called with handle and session closed, as
   gamecardOpenStorageArea calls it: the loop, for each outcome of each of its tries. *)
RetryInit ==
    /\ InterfaceInit
    /\ hfsdev = NoDevice
    /\ parse = NoParse
    /\ iface = NoIface
    /\ loop \in {LoopStart(FALSE, FALSE, tries) : tries \in [1..HANDLE_TRIES -> TryOutcomes]}

(* One pass of the loop. *)
RetryTry ==
    /\ ~LoopDone(loop)
    /\ loop' = LoopTry(loop)
    /\ UNCHANGED <<g_gameCardMutex, ifaceVars, infoVars, hfsVars, xVars, evVars, tpc, loadVars,
                   log, signals, inserted, card, sxos, cliVars, hfsdev, parse, iface>>

RetrySpec == RetryInit /\ [][RetryTry]_vars

(* ------------------------------------------------------------------ *)
(* Environment.  Within one run of gamecardLoadInfo the slot holds one *)
(* card: it can be pulled, and pushed back, but not be exchanged.      *)
(* ------------------------------------------------------------------ *)
InLoadInfo ==
    tpc \in {"load_begin", "load_header", "load_decrypt", "load_gate", "load_sizes",
             "load_capacity", "load_root", "load_array", "load_child", "load_end"}

CardInsert ==
    /\ ~inserted
    /\ inserted' = TRUE
    /\ card' = IF InLoadInfo THEN card ELSE NoCard
    /\ g_gameCardKernelEvent' = g_loadKernelEvent
    /\ UNCHANGED <<g_gameCardMutex, ifaceVars, infoVars, hfsVars, xVars,
                   g_gameCardDetectionThreadExitEvent, g_gameCardStatusChangeEvent, tpc,
                   loadVars, log, signals, live, fixedVars, cliVars>>

CardRemove ==
    /\ inserted
    /\ inserted' = FALSE
    /\ card' = IF InLoadInfo THEN card ELSE NoCard
    /\ live' = FALSE
    /\ g_gameCardKernelEvent' = g_loadKernelEvent
    /\ UNCHANGED <<g_gameCardMutex, ifaceVars, infoVars, hfsVars, g_gameCardStatus,
                   g_gameCardHandle, g_gameCardStorage, g_gameCardCurrentStorageArea,
                   g_gameCardDetectionThreadExitEvent, g_gameCardStatusChangeEvent, tpc,
                   loadVars, log, signals, fixedVars, cliVars>>

(* The card is pulled and pushed back before the detection thread looks: the session that
   was open is gone, the card is the same. *)
CardReseat ==
    /\ inserted
    /\ live' = FALSE
    /\ g_gameCardKernelEvent' = g_loadKernelEvent
    /\ UNCHANGED <<g_gameCardMutex, ifaceVars, infoVars, hfsVars, g_gameCardStatus,
                   g_gameCardHandle, g_gameCardStorage, g_gameCardCurrentStorageArea,
                   g_gameCardDetectionThreadExitEvent, g_gameCardStatusChangeEvent, tpc,
                   loadVars, log, signals, envVars, cliVars>>

(* ------------------------------------------------------------------ *)
(* gamecardFreeInfo and gamecardLoadInfo.                               *)
(* ------------------------------------------------------------------ *)
(* The contexts the array ctx points to (by index). *)
CtxIds(ctx) == IF ctx = NULL THEN {} ELSE {j - 1 : j \in {k \in 1..Len(ctx) : ctx[k] # NULL}}

(* gamecardFreeInfo(clear_status), run on transport state x and heap hp. *)
gamecardFreeInfo(clear_status, x, hp, bad) ==
    /\ g_gameCardHeader' = ZeroHeader
    /\ g_gameCardInfoArea' = ZeroInfoArea
    /\ SetG([normal |-> 0, secure |-> 0, total |-> 0])
    /\ g_gameCardCapacity' = 0
    /\ heap' = hp \ CtxIds(g_gameCardHfsCtx)
    /\ badFree' = (bad \/ ~(CtxIds(g_gameCardHfsCtx) \subseteq hp))
    /\ g_gameCardHfsCtx' = NULL
    /\ g_gameCardHfsCount' = 0
    /\ SetX([gamecardCloseStorageArea(x) EXCEPT
                !.status = IF clear_status THEN GameCardStatus_NotInserted ELSE x.status])

(* The cards a step of gamecardLoadInfo may find in the slot. *)
CardChoices == IF card = NoCard THEN Cards ELSE {card}

(* gamecardLoadInfo going on after a failed step. *)
LoadNext_Always(ok, next) == next

(* Where gamecardLoadInfo goes after a step: on to the next one, or to `end`. *)
LoadNext(ok, next) == IF ok THEN next ELSE "load_end"

(* gamecardLoadInfo clearing the status on failure. *)
LoadInfoClearStatus_True == TRUE

(* Line 754: the argument of the gamecardFreeInfo call of gamecardLoadInfo. *)
LoadInfoClearStatus == FALSE

(* gamecardLoadInfo freeing the root context although the array holds it. *)
LoadInfoFreesRoot_Always(ctx, root) == root # NULL

(* Line 748: gamecardLoadInfo frees the root context itself. *)
LoadInfoFreesRoot(ctx, root) == ctx = NULL /\ root # NULL

(* The log of the detection thread: the step made, whether it succeeded, and a note
   ("mismatch": the step failed on a SHA-256 mismatch; "args", "alloc", "type", "partial",
   "counts", "header_alloc", "full", "name": the check of the partition parsing that failed, see HfsFailed
   and line 733; "magic": the header was read and
   has not the magic word; "normal", "secure": gamecardGetHandleAndStorage failed for
   that area; "loaded": gamecardFreeInfo was entered with the info of a card
   loaded; "same": the card found inserted is the one whose info was loaded last). *)
LogEntry(step, ok, note) == [step |-> step, ok |-> ok, note |-> note]
Logged(step, ok) == log' = Append(log, LogEntry(step, ok, ""))

(* The note of a step whose storage calls left the transport state x. *)
DeniedNote(x, note) ==
    IF x.denied = GameCardStorageArea_Normal THEN "normal"
    ELSE IF x.denied = GameCardStorageArea_Secure THEN "secure"
    ELSE note

(* Lines 653-660. *)
LoadBegin ==
    /\ tpc = "load_begin"
    /\ IF g_gameCardStatus = GameCardStatus_InsertedAndInfoLoaded
       THEN /\ tpc' = "signal"
            /\ UNCHANGED <<g_gameCardStatus, log>>
       ELSE /\ g_gameCardStatus' = GameCardStatus_InsertedAndInfoNotLoaded
            /\ tpc' = "load_header"
            /\ Logged("begin", TRUE)
    /\ root_fs_ctx' = NULL
    /\ i' = 0
    /\ UNCHANGED <<g_gameCardMutex, ifaceVars, infoVars, hfsVars, g_gameCardHandle,
                   g_gameCardStorage, g_gameCardCurrentStorageArea, live, evVars, signals,
                   envVars, cliVars>>

(* Lines 793-816: gamecardReadHeader from the return of gamecardOpenStorageArea on; rc
   says that fsStorageRead succeeded. *)
gamecardReadHeader(opened, rc, c) ==
    /\ SetX(opened.x)
    /\ card' = IF rc THEN c ELSE card
    /\ g_gameCardHeader' = IF rc THEN CardHeader(c) ELSE g_gameCardHeader
    /\ tpc' = LoadNext(rc /\ CardHeader(c).magic, "load_decrypt")
    /\ log' = Append(log, LogEntry("header", rc /\ CardHeader(c).magic,
                                   DeniedNote(opened.x, IF rc /\ ~CardHeader(c).magic
                                                        THEN "magic" ELSE "")))

gamecardReadHeaderOpened(opened, c) ==
    gamecardReadHeader(opened, opened.ok /\ fsStorageRead(opened.x, opened.o), c)

(* Line 665: gamecardReadHeader. *)
LoadHeader ==
    /\ tpc = "load_header"
    /\ \E o \in Oracles(1, 1, FALSE), c \in CardChoices :
         gamecardReadHeaderOpened(gamecardOpenStorageArea(X, GameCardStorageArea_Normal, o), c)
    /\ UNCHANGED <<g_gameCardMutex, ifaceVars, g_gameCardInfoArea, g_gameCardNormalAreaSize,
                   g_gameCardSecureAreaSize, g_gameCardTotalSize, g_gameCardCapacity, hfsVars,
                   evVars, loadVars, signals, inserted, fixedVars, cliVars>>

(* Line 668: gamecardGetDecryptedCardInfoArea; keysGetGameCardInfoKey may return no key. *)
LoadDecrypt ==
    /\ tpc = "load_decrypt"
    /\ \E card_info_key \in BOOLEAN :
         /\ g_gameCardInfoArea' = IF card_info_key THEN aes128CbcDecrypt(g_gameCardHeader.card_info)
                                                   ELSE g_gameCardInfoArea
         /\ tpc' = LoadNext(card_info_key, "load_gate")
         /\ Logged("decrypt", card_info_key)
    /\ UNCHANGED <<g_gameCardMutex, ifaceVars, g_gameCardHeader, g_gameCardNormalAreaSize,
                   g_gameCardSecureAreaSize, g_gameCardTotalSize, g_gameCardCapacity, hfsVars,
                   xVars, evVars, loadVars, signals, envVars, cliVars>>

(* The gate letting a card through that requires exactly the installed version. *)
LafwVersionOk_Equal(lafw, fw_version) == ~(lafw < fw_version)

(* Line 672: the installed LAFW version meets the requirement of the card. *)
LafwVersionOk(lafw, fw_version) == ~(lafw <= fw_version)

(* Lines 672-677. *)
LoadGate ==
    /\ tpc = "load_gate"
    /\ LET ok == LafwVersionOk(g_lafwVersion, g_gameCardInfoArea.fw_version)
       IN  /\ g_gameCardStatus' = IF ok THEN g_gameCardStatus
                                        ELSE GameCardStatus_LotusAsicFirmwareUpdateRequired
           /\ tpc' = LoadNext(ok, "load_sizes")
           /\ Logged("gate", ok)
    /\ UNCHANGED <<g_gameCardMutex, ifaceVars, infoVars, hfsVars, g_gameCardHandle,
                   g_gameCardStorage, g_gameCardCurrentStorageArea, live, evVars, loadVars,
                   signals, envVars, cliVars>>

(* Lines 681-685, r being what gamecardGetStorageAreasSizes returned. *)
LoadSizesDone(r, c) ==
    /\ SetX(r.x)
    /\ card' = IF inserted THEN c ELSE card
    /\ SetG(r.g)
    /\ tpc' = LoadNext(r.ok, "load_capacity")
    /\ log' = Append(log, LogEntry("sizes", r.ok, DeniedNote(r.x, "")))

(* Lines 681-685. *)
LoadSizes ==
    /\ tpc = "load_sizes"
    /\ \E o \in Oracles(2, 2, FALSE), c \in CardChoices :
         LoadSizesDone(gamecardGetStorageAreasSizes(X, G, o, c), c)
    /\ UNCHANGED <<g_gameCardMutex, ifaceVars, g_gameCardHeader, g_gameCardInfoArea,
                   g_gameCardCapacity, hfsVars, evVars, loadVars, signals, inserted, fixedVars,
                   cliVars>>

(* Lines 688-700. *)
LoadCapacity ==
    /\ tpc = "load_capacity"
    /\ LET capacity == gamecardGetCapacityFromRomSizeValue(g_gameCardHeader.rom_size)
       IN  /\ g_gameCardCapacity' = capacity
           /\ g_gameCardSecureAreaSize' =
                 IF capacity # 0 /\ sxos
                 THEN U64(capacity - U64(g_gameCardNormalAreaSize
                                         + GAMECARD_UNUSED_AREA_SIZE(capacity)))
                 ELSE g_gameCardSecureAreaSize
           /\ tpc' = LoadNext(capacity # 0, "load_root")
           /\ Logged("capacity", capacity # 0)
    /\ UNCHANGED <<g_gameCardMutex, ifaceVars, g_gameCardHeader, g_gameCardInfoArea,
                   g_gameCardNormalAreaSize, g_gameCardTotalSize, hfsVars, xVars, evVars,
                   loadVars, signals, envVars, cliVars>>

(* Lines 703-704, r being what gamecardInitializeHashFileSystemContext returned. *)
LoadRootDone(r, c) ==
    /\ SetX(r.x)
    /\ card' = IF inserted THEN c ELSE card
    /\ root_fs_ctx' = r.ctx
    /\ heap' = IF r.ctx # NULL THEN heap \cup {0} ELSE heap
    /\ tpc' = LoadNext(r.ctx # NULL, "load_array")
    /\ log' = Append(log, LogEntry("root", r.ctx # NULL,
                                   DeniedNote(r.x, IF r.mismatch THEN "mismatch" ELSE r.at)))

(* Lines 703-704: the root partition. *)
LoadRoot ==
    /\ tpc = "load_root"
    /\ \E o \in Oracles(1, 2, TRUE), c \in CardChoices :
         LoadRootDone(gamecardInitializeHashFileSystemContext(
                          NULL_NAME, g_gameCardHeader.partition_fs_header_address, 0,
                          g_gameCardHeader.partition_fs_header_hash, 0,
                          g_gameCardHeader.partition_fs_header_size, X, G, o,
                          CardHfsHeader(c, 0)), c)
    /\ UNCHANGED <<g_gameCardMutex, ifaceVars, infoVars, g_gameCardHfsCount, g_gameCardHfsCtx,
                   badFree, evVars, i, signals, inserted, fixedVars, cliVars>>

(* Lines 707-719: the context pointer array. *)
LoadArray ==
    /\ tpc = "load_array"
    /\ \E allocated \in BOOLEAN :
         LET root_fs_entry_count == root_fs_ctx.header.entry_count
         IN  /\ g_gameCardHfsCount' = root_fs_entry_count + 1
             /\ g_gameCardHfsCtx' =
                   IF allocated
                   THEN [j \in 1..(root_fs_entry_count + 1) |-> IF j = 1 THEN root_fs_ctx ELSE NULL]
                   ELSE NULL
             /\ tpc' = LoadNext(allocated, "load_child")
             /\ Logged("array", allocated)
    /\ i' = 0
    /\ UNCHANGED <<g_gameCardMutex, ifaceVars, infoVars, heap, badFree, xVars, evVars,
                   root_fs_ctx, signals, envVars, cliVars>>

(* Lines 732-739, r being what gamecardInitializeHashFileSystemContext returned for
   entry i (a failure, without a call, if the name of the entry is bad). *)
LoadChildDone(r, bad_name, c) ==
    /\ SetX(r.x)
    /\ card' = IF inserted /\ ~bad_name THEN c ELSE card
    /\ g_gameCardHfsCtx' = IF bad_name THEN g_gameCardHfsCtx
                           ELSE [g_gameCardHfsCtx EXCEPT ![i + 2] = r.ctx]
    /\ heap' = IF r.ctx # NULL THEN heap \cup {i + 1} ELSE heap
    /\ i' = IF r.ctx # NULL THEN i + 1 ELSE i
    /\ tpc' = LoadNext(r.ctx # NULL, "load_child")
    /\ log' = Append(log, LogEntry("child", r.ctx # NULL,
                                   DeniedNote(r.x, IF r.mismatch THEN "mismatch" ELSE r.at)))

(* The offset of the entry counted from the start of the root partition. *)
EntryOffset_FromStart(root, fs_entry) == U64(root.offset + fs_entry.offset)

(* Line 730: fs_entry_offset, where the partition of the entry starts. *)
EntryOffset(root, fs_entry) == U64(root.offset + root.header_size + fs_entry.offset)

(* Lines 728-738: entry fs_entry of the root partition. *)
LoadChildEntry(fs_entry, bad_name) ==
    \E o \in Oracles(2, 2, TRUE), c \in CardChoices :
       LoadChildDone(IF bad_name THEN HfsFailed(X, {}, "name")
                     ELSE gamecardInitializeHashFileSystemContext(
                              fs_entry.name, EntryOffset(root_fs_ctx, fs_entry),
                              fs_entry.size, fs_entry.hash, fs_entry.hash_target_offset,
                              fs_entry.hash_target_size, X, G, o, CardHfsHeader(c, i + 1)),
                     bad_name, c)

(* The name of no entry found invalid. *)
EntryNameInvalid_Never(fs_entry, root_fs_name_table_size) == FALSE

(* Line 732: the name of the entry lies outside the name table or is empty. *)
EntryNameInvalid(fs_entry, root_fs_name_table_size) ==
    fs_entry.name_offset >= root_fs_name_table_size \/ fs_entry.name = ""

(* Lines 726-743: one turn of the loop over the root entries, or its exit. *)
LoadChild ==
    /\ tpc = "load_child"
    /\ IF i >= root_fs_ctx.header.entry_count
       THEN /\ g_gameCardStatus' = GameCardStatus_InsertedAndInfoLoaded
            /\ tpc' = "load_end"
            /\ Logged("loaded", TRUE)
            /\ UNCHANGED <<g_gameCardHandle, g_gameCardStorage, g_gameCardCurrentStorageArea,
                           live, g_gameCardHfsCtx, heap, i, card>>
       ELSE LoadChildEntry(
                root_fs_ctx.header.entries[i + 1],
                EntryNameInvalid(root_fs_ctx.header.entries[i + 1],
                                 root_fs_ctx.header.name_table_size))
    /\ UNCHANGED <<g_gameCardMutex, ifaceVars, infoVars, g_gameCardHfsCount, badFree, evVars,
                   root_fs_ctx, signals, inserted, fixedVars, cliVars>>

(* Lines 745-756. *)
LoadEnd ==
    /\ tpc = "load_end"
    /\ IF g_gameCardStatus # GameCardStatus_InsertedAndInfoLoaded
       THEN LET frees == LoadInfoFreesRoot(g_gameCardHfsCtx, root_fs_ctx)
            IN  gamecardFreeInfo(LoadInfoClearStatus, X, IF frees THEN heap \ {0} ELSE heap,
                                 badFree \/ (frees /\ 0 \notin heap))
       ELSE UNCHANGED <<infoVars, hfsVars, xVars>>
    /\ root_fs_ctx' = NULL
    /\ i' = 0
    /\ tpc' = "signal"
    /\ Logged("end", g_gameCardStatus = GameCardStatus_InsertedAndInfoLoaded)
    /\ card' = IF g_gameCardStatus = GameCardStatus_InsertedAndInfoLoaded /\ inserted
               THEN card ELSE NoCard
    /\ UNCHANGED <<g_gameCardMutex, ifaceVars, evVars, signals, inserted, fixedVars, cliVars>>

(* ------------------------------------------------------------------ *)
(* The detection thread, gamecardDetectionThreadFunc.                   *)
(* ------------------------------------------------------------------ *)
(* mutexLock returning whoever holds the mutex. *)
MutexFree_Always == TRUE

(* mutexLock returns: the mutex is free. *)
MutexFree == g_gameCardMutex = MUTEX_FREE

(* Line 601 and line 616: SCOPED_LOCK is entered. *)
DetLock ==
    /\ tpc \in {"start", "h_lock"}
    /\ MutexFree
    /\ g_gameCardMutex' = DetThread
    /\ tpc' = IF tpc = "start" THEN "start_check" ELSE "h_free"
    /\ log' = <<>>
    /\ signals' = 0
    /\ UNCHANGED <<ifaceVars, infoVars, hfsVars, xVars, evVars, loadVars, envVars, cliVars>>

(* Line 619: gamecardFreeInfo(true), up to its last statement. *)
DetFree ==
    /\ tpc \in {"h_free", "x_free"}
    /\ gamecardFreeInfo(FALSE, X, heap, badFree)
    /\ tpc' = IF tpc = "h_free" THEN "h_clear" ELSE "x_clear"
    /\ log' = Append(log, LogEntry("free", TRUE,
                                   IF g_gameCardStatus = GameCardStatus_InsertedAndInfoLoaded
                                   THEN "loaded" ELSE ""))
    /\ UNCHANGED <<g_gameCardMutex, ifaceVars, evVars, loadVars, signals, envVars, cliVars>>

(* Line 788: the last statement of gamecardFreeInfo(true). *)
DetClear ==
    /\ tpc \in {"h_clear", "x_clear"}
    /\ g_gameCardStatus' = GameCardStatus_NotInserted
    /\ tpc' = IF tpc = "h_clear" THEN "h_check" ELSE "done"
    /\ UNCHANGED <<g_gameCardMutex, ifaceVars, infoVars, hfsVars, g_gameCardHandle,
                   g_gameCardStorage, g_gameCardCurrentStorageArea, live, evVars, loadVars, log,
                   signals, envVars, cliVars>>

(* The load run whatever gamecardIsInserted returned. *)
AfterCheck_LoadAlways(is_inserted) == "load_begin"

(* The status change event signalled after a load only. *)
AfterCheck_NoSignal(is_inserted) == IF is_inserted THEN "load_begin" ELSE "wait"

(* Lines 603-604 and 623-633: the load is run for an inserted card only, the status change
   event is signalled either way. *)
AfterCheck(is_inserted) == IF is_inserted THEN "load_begin" ELSE "signal"

(* The settle delay made at the start of the thread as well. *)
SettleDelay_Always(pc) == TRUE

(* Lines 603 and 623-626: utilsSleep(GAMECARD_ACCESS_WAIT_TIME) is called in the handling of
   a detection signal, not in the block at the start of the thread. *)
SettleDelay(pc) == pc = "h_check"

(* Lines 603 and 623-630: gamecardIsInserted, and the wait before the load of a card
   inserted while the thread runs. *)
DetCheck ==
    /\ tpc \in {"start_check", "h_check"}
    /\ \E rc \in BOOLEAN :
         LET is_inserted == rc /\ inserted
             checked == Append(log, LogEntry("check", is_inserted,
                                             IF is_inserted /\ card # NoCard THEN "same" ELSE ""))
         IN  /\ tpc' = AfterCheck(is_inserted)
             /\ log' = IF is_inserted /\ SettleDelay(tpc)
                       THEN Append(checked, LogEntry("sleep", TRUE, ""))
                       ELSE checked
    /\ UNCHANGED <<g_gameCardMutex, ifaceVars, infoVars, hfsVars, xVars, evVars, loadVars,
                   signals, envVars, cliVars>>

(* Lines 604 and 633: ueventSignal, and the end of the SCOPED_LOCK block. *)
DetSignal ==
    /\ tpc = "signal"
    /\ g_gameCardStatusChangeEvent' = TRUE
    /\ signals' = signals + 1
    /\ g_gameCardMutex' = MUTEX_FREE
    /\ tpc' = "wait"
    /\ log' = <<>>
    /\ UNCHANGED <<ifaceVars, infoVars, hfsVars, xVars, g_gameCardKernelEvent,
                   g_gameCardDetectionThreadExitEvent, loadVars, envVars, cliVars>>

(* Lines 610-614: waitMulti returns for the detection event (idx 0) or for the exit event
   (idx 1); both events clear themselves. *)
DetWait ==
    /\ tpc = "wait"
    /\ \/ /\ g_gameCardKernelEvent
          /\ g_gameCardKernelEvent' = FALSE
          /\ tpc' = "h_lock"
          /\ UNCHANGED g_gameCardDetectionThreadExitEvent
       \/ /\ g_gameCardDetectionThreadExitEvent
          /\ g_gameCardDetectionThreadExitEvent' = FALSE
          /\ tpc' = "x_free"
          /\ UNCHANGED g_gameCardKernelEvent
    /\ UNCHANGED <<g_gameCardMutex, ifaceVars, infoVars, hfsVars, xVars,
                   g_gameCardStatusChangeEvent, loadVars, log, signals, envVars, cliVars>>

(* ------------------------------------------------------------------ *)
(* gamecardInitialize and gamecardExit.                                 *)
(* ------------------------------------------------------------------ *)
(* Lines 550-556: the LAFW version is the number of bits set in the version mask. *)
RECURSIVE LafwVersionFromMask(_)
LafwVersionFromMask(fw_version) ==
    IF fw_version = 0 THEN 0 ELSE (fw_version % 2) + LafwVersionFromMask(fw_version \div 2)

InitSteps == <<"malloc", "devop", "notifier", "kevent", "lafw", "thread">>

(* gamecardInitialize by client c: `upto` steps succeed and the next one fails
   (all of them with upto = Len(InitSteps)); the mutex is held throughout. *)
Initialize(c) ==
    /\ cpc[c] = "idle"
    /\ MutexFree
    /\ IF g_gameCardInterfaceInit
       THEN UNCHANGED <<ifaceVars, evVars, tpc>>
       ELSE \E upto \in 0..Len(InitSteps), mask \in 0..((2 ^ MaxLafw) - 1) :
              /\ g_gameCardReadBuf' = (upto >= 1)
              /\ g_openDeviceOperator' = (g_openDeviceOperator \/ upto >= 2)
              /\ g_openEventNotifier' = (g_openEventNotifier \/ upto >= 3)
              /\ g_loadKernelEvent' = (g_loadKernelEvent \/ upto >= 4)
              /\ g_gameCardKernelEvent' = IF upto >= 4 /\ ~g_loadKernelEvent THEN FALSE
                                          ELSE g_gameCardKernelEvent
              /\ g_gameCardDetectionThreadExitEvent' =
                    IF upto >= 4 THEN FALSE ELSE g_gameCardDetectionThreadExitEvent
              /\ g_gameCardStatusChangeEvent' =
                    IF upto >= 4 THEN FALSE ELSE g_gameCardStatusChangeEvent
              /\ g_lafwVersion' = IF upto >= 5 THEN LafwVersionFromMask(mask) ELSE g_lafwVersion
              /\ g_gameCardDetectionThreadCreated' = (upto >= 6)
              /\ tpc' = IF upto >= 6 THEN "start" ELSE tpc
              /\ g_gameCardInterfaceInit' = (upto >= 6)
    /\ UNCHANGED <<g_gameCardMutex, infoVars, hfsVars, xVars, loadVars, log, signals, envVars,
                   cliVars>>

(* gamecardExit by client c, up to the join of gamecardDestroyDetectionThread. *)
ExitBegin(c) ==
    /\ cpc[c] = "idle"
    /\ MutexFree
    /\ g_gameCardMutex' = c
    /\ cpc' = [cpc EXCEPT ![c] = "exit"]
    /\ g_gameCardDetectionThreadExitEvent' =
          (g_gameCardDetectionThreadCreated \/ g_gameCardDetectionThreadExitEvent)
    /\ UNCHANGED <<ifaceVars, infoVars, hfsVars, xVars, g_gameCardKernelEvent,
                   g_gameCardStatusChangeEvent, tpc, loadVars, log, signals, envVars, call>>

(* gamecardExit: utilsJoinThread returns, the rest of the function runs. *)
ExitEnd(c) ==
    /\ cpc[c] = "exit"
    /\ g_gameCardDetectionThreadCreated => tpc = "done"
    /\ g_gameCardDetectionThreadCreated' = FALSE
    /\ tpc' = "none"
    /\ g_loadKernelEvent' = FALSE
    /\ g_gameCardKernelEvent' = FALSE
    /\ g_openEventNotifier' = FALSE
    /\ g_openDeviceOperator' = FALSE
    /\ g_gameCardReadBuf' = FALSE
    /\ g_gameCardInterfaceInit' = FALSE
    /\ g_gameCardMutex' = MUTEX_FREE
    /\ cpc' = [cpc EXCEPT ![c] = "idle"]
    /\ UNCHANGED <<g_lafwVersion, infoVars, hfsVars, xVars, g_gameCardDetectionThreadExitEvent,
                   g_gameCardStatusChangeEvent, loadVars, log, signals, envVars, call>>

(* ------------------------------------------------------------------ *)
(* The public interface, called by the client threads.                  *)
(* ------------------------------------------------------------------ *)
InfoLoaded == g_gameCardInterfaceInit /\ g_gameCardStatus = GameCardStatus_InsertedAndInfoLoaded

gamecardGetStatus ==
    [ok |-> TRUE,
     val |-> IF g_gameCardInterfaceInit THEN g_gameCardStatus ELSE GameCardStatus_NotInserted]

(* gamecardGetHeader without its test of the status. *)
gamecardGetHeader_AnyStatus(out) ==
    IF g_gameCardInterfaceInit /\ out THEN [ok |-> TRUE, val |-> g_gameCardHeader]
                                      ELSE [ok |-> FALSE, val |-> NULL]

gamecardGetHeader(out) ==
    IF InfoLoaded /\ out THEN [ok |-> TRUE, val |-> g_gameCardHeader] ELSE [ok |-> FALSE, val |-> NULL]

gamecardGetTotalSize(out) ==
    IF InfoLoaded /\ out THEN [ok |-> TRUE, val |-> g_gameCardTotalSize] ELSE [ok |-> FALSE, val |-> NULL]

gamecardGetRomCapacity(out) ==
    IF InfoLoaded /\ out THEN [ok |-> TRUE, val |-> g_gameCardCapacity] ELSE [ok |-> FALSE, val |-> NULL]

(* The lookup that returns the last child of the name asked for. *)
gamecardGetHashFileSystemContextIndex_LastMatch(hfs_partition_type) ==
    IF ~g_gameCardInterfaceInit \/ g_gameCardStatus # GameCardStatus_InsertedAndInfoLoaded
       \/ g_gameCardHfsCount = 0 \/ g_gameCardHfsCtx = NULL
       \/ hfs_partition_type >= GameCardHashFileSystemPartitionType_Count
    THEN -1
    ELSE IF hfs_partition_type = GameCardHashFileSystemPartitionType_Root THEN 0
    ELSE LET partition_name == g_gameCardHfsPartitionNames[hfs_partition_type + 1]
             hits == {j \in 1..(g_gameCardHfsCount - 1) :
                         g_gameCardHfsCtx[j + 1].name = partition_name}
         IN  IF hits = {} THEN -1 ELSE CHOOSE j \in hits : \A k \in hits : j >= k

(* _gamecardGetHashFileSystemContext: the index of the context in the array, -1 for none. *)
gamecardGetHashFileSystemContextIndex(hfs_partition_type) ==
    IF ~g_gameCardInterfaceInit \/ g_gameCardStatus # GameCardStatus_InsertedAndInfoLoaded
       \/ g_gameCardHfsCount = 0 \/ g_gameCardHfsCtx = NULL
       \/ hfs_partition_type >= GameCardHashFileSystemPartitionType_Count
    THEN -1
    ELSE IF hfs_partition_type = GameCardHashFileSystemPartitionType_Root THEN 0
    ELSE LET partition_name == g_gameCardHfsPartitionNames[hfs_partition_type + 1]
             hits == {j \in 1..(g_gameCardHfsCount - 1) :
                         g_gameCardHfsCtx[j + 1].name = partition_name}
         IN  IF hits = {} THEN -1 ELSE CHOOSE j \in hits : \A k \in hits : j <= k

(* gamecardGetHashFileSystemContext: the copy handed out. *)
gamecardGetHashFileSystemContext(hfs_partition_type, out) ==
    LET idx == gamecardGetHashFileSystemContextIndex(hfs_partition_type)
    IN  IF hfs_partition_type >= GameCardHashFileSystemPartitionType_Count \/ ~out \/ idx < 0
        THEN [ok |-> FALSE, val |-> NULL]
        ELSE [ok |-> TRUE, val |-> g_gameCardHfsCtx[idx + 1]]

(* What memRetrieveFullProgramMemory and the search of the dump come to: the dump is not
   retrieved, it holds no block with the package id and the hash of the header, it holds
   one. *)
MemoryDumps == {"failed", "miss", "found"}

(* Lines 867-898: `opened` is what gamecardOpenStorageArea(GameCardStorageArea_Secure)
   returned. *)
ReadInitialDataOpened(opened, mem) ==
    [ok |-> opened.ok /\ mem = "found", x |-> opened.x, o |-> opened.o]

(* Lines 849-899. *)
gamecardReadInitialData(x, out, o, mem) ==
    IF ~g_gameCardInterfaceInit \/ x.status # GameCardStatus_InsertedAndInfoLoaded \/ ~out
    THEN [ok |-> FALSE, x |-> x, o |-> o]
    ELSE ReadInitialDataOpened(gamecardOpenStorageArea(x, GameCardStorageArea_Secure, o), mem)

(* The (offset, size) pairs the clients read: within the normal area, page aligned and
   not; across the end of the normal area of a card with one partition, page aligned and
   not; within the secure area, of more than the read buffer holds; of no bytes. *)
ReadRequests ==
    { [offset |-> 0, size |-> GAMECARD_PAGE_SIZE],
      [offset |-> ROOT_ADDR + 1, size |-> HFS_HEADER_SIZE],
      [offset |-> CardNormalSize(1) - HFS_HEADER_SIZE, size |-> GAMECARD_PAGE_SIZE],
      [offset |-> CardNormalSize(1) - GAMECARD_PAGE_SIZE, size |-> 2 * GAMECARD_PAGE_SIZE],
      [offset |-> CardNormalSize(1) + GAMECARD_PAGE_SIZE, size |-> GAMECARD_PAGE_SIZE],
      [offset |-> CardNormalSize(1) + 1,
       size |-> GAMECARD_READ_BUFFER_SIZE + GAMECARD_PAGE_SIZE - 1],
      [offset |-> 0, size |-> 0] }

(* A getter, from the start of its SCOPED_LOCK block: its result is one of the operators
   above, evaluated while the client is in the block. *)
QueryBegin(c) ==
    /\ cpc[c] = "idle"
    /\ MutexFree
    /\ g_gameCardMutex' = c
    /\ cpc' = [cpc EXCEPT ![c] = "query"]
    /\ UNCHANGED <<ifaceVars, infoVars, hfsVars, xVars, evVars, tpc, loadVars, log, signals,
                   envVars, call>>

(* Lines 316-321: r is what gamecardReadStorageArea(out, q.size, q.offset) returned. *)
ReadDone(out, q, r) ==
    /\ SetX(r.x)
    /\ call' = [out |-> out, size |-> q.size, offset |-> q.offset, ok |-> r.ok, ops |-> r.ops]

(* gamecardReadStorage, from its SCOPED_LOCK to the return of gamecardReadStorageArea. *)
ReadBegin(c) ==
    /\ cpc[c] = "idle"
    /\ MutexFree
    /\ g_gameCardMutex' = c
    /\ cpc' = [cpc EXCEPT ![c] = "read"]
    /\ \E out \in BOOLEAN, q \in ReadRequests, o \in Oracles(2, 2, FALSE) :
         ReadDone(out, q, IF out THEN gamecardReadStorageArea(X, G, q.size, q.offset, o)
                                 ELSE ReadResult(FALSE, X, o, <<>>))
    /\ UNCHANGED <<ifaceVars, infoVars, hfsVars, evVars, tpc, loadVars, log, signals, envVars>>

(* gamecardGetKeyArea, from its SCOPED_LOCK to the return of gamecardReadInitialData. *)
KeyAreaBegin(c) ==
    /\ cpc[c] = "idle"
    /\ MutexFree
    /\ g_gameCardMutex' = c
    /\ cpc' = [cpc EXCEPT ![c] = "keyarea"]
    /\ \E out \in BOOLEAN, mem \in MemoryDumps, o \in Oracles(1, 0, FALSE) :
         SetX(gamecardReadInitialData(X, out, o, mem).x)
    /\ UNCHANGED <<ifaceVars, infoVars, hfsVars, evVars, tpc, loadVars, log, signals, envVars,
                   call>>

(* The end of the SCOPED_LOCK block of a getter, of gamecardReadStorage or of
   gamecardGetKeyArea. *)
CallEnd(c) ==
    /\ cpc[c] \in {"query", "read", "keyarea"}
    /\ g_gameCardMutex' = MUTEX_FREE
    /\ cpc' = [cpc EXCEPT ![c] = "idle"]
    /\ call' = NoCall
    /\ UNCHANGED <<ifaceVars, infoVars, hfsVars, xVars, evVars, tpc, loadVars, log, signals,
                   envVars>>

(* ------------------------------------------------------------------ *)
(* gamecardReadStorage over a wide range of arguments: the interface is *)
(* brought up as in Spec, for a card of ReadCards, and the clients read *)
(* at the offsets and with the sizes of ReadDomain, which lie at the    *)
(* ends of the areas, of the pages, of the read buffer and of the u64.  *)
(* ------------------------------------------------------------------ *)
MaxChunks == 3         \* storage reads the transport lets succeed in one call

(* The cards read: of one partition, with a secure area smaller and larger than the read
   buffer. *)
ReadCards ==
    {c \in Cards : c.kind = "none" /\ c.fw = 0 /\ c.n = 1
                   /\ c.rom \in {GameCardRomSize_1GiB, GameCardRomSize_32GiB}}

ReadOffsets(g) ==
    {0, 1, 100, GAMECARD_PAGE_SIZE, g.normal - GAMECARD_PAGE_SIZE, g.normal - 1, g.normal,
     g.normal + 1, g.normal + GAMECARD_PAGE_SIZE, g.total - GAMECARD_PAGE_SIZE, g.total - 1,
     g.total, U64Mod - GAMECARD_PAGE_SIZE, U64Mod - GAMECARD_PAGE_SIZE + 1}
        \cap (0..(U64Mod - 1))

ReadSizes ==
    {0, 1, GAMECARD_PAGE_SIZE - 1, GAMECARD_PAGE_SIZE, GAMECARD_PAGE_SIZE + 1,
     2 * GAMECARD_PAGE_SIZE, 5 * GAMECARD_PAGE_SIZE,
     GAMECARD_READ_BUFFER_SIZE - GAMECARD_PAGE_SIZE, GAMECARD_READ_BUFFER_SIZE,
     GAMECARD_READ_BUFFER_SIZE + 1, GAMECARD_READ_BUFFER_SIZE + GAMECARD_PAGE_SIZE,
     2 * GAMECARD_READ_BUFFER_SIZE, (2 * GAMECARD_READ_BUFFER_SIZE) + (2 * GAMECARD_PAGE_SIZE) - 1,
     U64Mod - (2 * GAMECARD_PAGE_SIZE), U64Mod - GAMECARD_PAGE_SIZE, U64Mod - 50, U64Mod - 1}

(* The arguments (offset, read_size) of the calls, any two u64 values of the above. *)
ReadDomain(g) == [offset : ReadOffsets(g), size : ReadSizes]

(* What the transport does during one call: every try of gamecardGetHandleAndStorage has
   the same outcome. *)
ReadOracles ==
    [inserted : {inserted}, retry : {[fails |-> 0, at |-> "handle"]}, opens : 0..MaxOpens,
     reads : 0..MaxChunks, allocs : {ALLOCS_PER_CONTEXT}]

(* Line 1051: the memcpy of op reads past the end of g_gameCardReadBuf, which has
   GAMECARD_READ_BUFFER_SIZE bytes (line 188). *)
MemcpyOverrun(op) ==
    op.kind = "read" /\ ~op.direct /\ op.rc /\ op.skip + op.len > GAMECARD_READ_BUFFER_SIZE

(* What a memcpy past the end of the read buffer can come to: it returns, or the thread
   faults in it. *)
MemcpyOutcomes == {"return", "fault"}

FaultOp(area) ==
    [kind |-> "fault", area |-> area, offset |-> 0, size |-> 0, direct |-> FALSE, dst |-> 0,
     skip |-> 0, len |-> 0, rc |-> FALSE, tries |-> 0, sleeps |-> 0, closes |-> 0]

(* The call that returned r if every memcpy returns, with the outcome ub of a memcpy past
   the end of the read buffer, which is the last thing a call does. *)
Memcpy(r, ub) ==
    IF ub = "fault" /\ r.ops # <<>> /\ MemcpyOverrun(r.ops[Len(r.ops)])
    THEN [r EXCEPT !.ok = FALSE, !.ops = Append(@, FaultOp(r.ops[Len(r.ops)].area))]
    ELSE r

(* gamecardReadStorage, as ReadBegin, with the arguments of ReadDomain. *)
ReadApply(c) ==
    /\ cpc[c] = "idle"
    /\ MutexFree
    /\ g_gameCardMutex' = c
    /\ cpc' = [cpc EXCEPT ![c] = "read"]
    /\ \E out \in BOOLEAN, q \in ReadDomain(G), o \in ReadOracles, ub \in MemcpyOutcomes :
         ReadDone(out, q, Memcpy(IF out THEN gamecardReadStorageArea(X, G, q.size, q.offset, o)
                                        ELSE ReadResult(FALSE, X, o, <<>>), ub))
    /\ UNCHANGED <<ifaceVars, infoVars, hfsVars, evVars, tpc, loadVars, log, signals, envVars>>

(* ------------------------------------------------------------------ *)
(* gamecardInitializeHashFileSystemContext on its own: one call, for    *)
(* the arguments and the header of ParseArgs, with the card inserted    *)
(* and no area open.  The window of the hash is taken from every place  *)
(* a u64 offset can put it: inside the header, across its end, and      *)
(* where offset + size is no u64.                                       *)
(* ------------------------------------------------------------------ *)
ParseEntry ==
    [ name_offset |-> 0, name |-> "file", offset |-> 0, size |-> GAMECARD_PAGE_SIZE,
      hash |-> 1, hash_target_offset |-> 0, hash_target_size |-> GAMECARD_PAGE_SIZE ]

(* The headers found at the offset of the node; their SHA-256, over any window, is 1. *)
ParseHeaders ==
    { [ magic |-> m, entry_count |-> n, name_table_size |-> nts,
        entries |-> [j \in 1..n |-> ParseEntry], digest |-> 1 ] :
      m \in BOOLEAN, n \in 0..1, nts \in {0, NAME_TABLE_SIZE} }

(* (hash_target_offset, hash_target_size): the size is a u32. *)
ParseWindows ==
    { <<0, 0>>, <<0, GAMECARD_PAGE_SIZE>>, <<HFS_HEADER_SIZE, HFS_ENTRY_SIZE>>,
      <<0, 2 * GAMECARD_PAGE_SIZE>>, <<GAMECARD_PAGE_SIZE, GAMECARD_PAGE_SIZE>>,
      <<1, GAMECARD_PAGE_SIZE>>, <<U64Mod - 1, 2>>,
      <<U64Mod - GAMECARD_PAGE_SIZE, 2 * GAMECARD_PAGE_SIZE>> }

ParseOracles ==
    [inserted : {TRUE}, retry : {[fails |-> 0, at |-> "handle"]}, opens : 0..1,
     reads : 0..MaxReads, allocs : 0..ALLOCS_PER_CONTEXT]

(* The arguments of a call: the root (a null name, size 0) or a child. *)
ParseArgs ==
    [ name : {NULL_NAME, "secure", "bogus"}, hash : {NULL_HASH, 1, 2}, window : ParseWindows,
      hdr : ParseHeaders, o : ParseOracles ]

(* The state the call is made in: the card of one partition is in the slot, its sizes are
   known (line 681) and no area is open. *)
ParseX ==
    [status |-> GameCardStatus_InsertedAndInfoNotLoaded, handle |-> FALSE, storage |-> FALSE,
     area |-> GameCardStorageArea_None, live |-> FALSE, denied |-> GameCardStorageArea_None]
ParseG ==
    [normal |-> CardNormalSize(1), secure |-> (2 * CHILD_SLOT) + GAMECARD_PAGE_SIZE,
     total |-> CardNormalSize(1) + (2 * CHILD_SLOT) + GAMECARD_PAGE_SIZE]

(* The call with arguments a, the header at its offset being hdr. *)
ParseCall(a, hdr) ==
    gamecardInitializeHashFileSystemContext(
        a.name, ROOT_ADDR, IF a.name = NULL_NAME THEN 0 ELSE CHILD_SLOT, a.hash, a.window[1],
        a.window[2], ParseX, ParseG, a.o, hdr)

(* Line 1233 is reached with a window that does not lie in the header_size bytes of
   fs_ctx->header: sha256CalculateHash reads outside the allocation of line 1216. *)
ShaOverrun(a, r) ==
    r.verified /\ a.window[1] + a.window[2] > HfsHeaderSize(a.hdr)

(* What that read can come to: the thread faults in it, or the bytes found give a digest,
   which is the supplied hash or is not. *)
ShaOutcomes == {"fault", "match", "mismatch"}

(* A call that did not return. *)
ParseFault(x) ==
    [HfsFailed(x, CtxHeld(3), "fault") EXCEPT !.held = CtxHeld(3), !.verified = TRUE]

(* The outcome of the call with arguments a, ub being the outcome of a read outside the
   header. *)
ParseResult(a, ub) ==
    IF ~ShaOverrun(a, ParseCall(a, [a.hdr EXCEPT !.digest = a.hash])) THEN ParseCall(a, a.hdr)
    ELSE IF ub = "fault" THEN ParseFault(ParseCall(a, [a.hdr EXCEPT !.digest = a.hash]).x)
    ELSE IF ub = "match" THEN ParseCall(a, [a.hdr EXCEPT !.digest = a.hash])
    ELSE ParseCall(a, [a.hdr EXCEPT !.digest = a.hash + 1])

ParseInit ==
    /\ InterfaceInit
    /\ hfsdev = NoDevice
    /\ loop = NoLoop
    /\ iface = NoIface
    /\ parse \in {[done |-> FALSE, args |-> a, r |-> HfsFail(ParseX)] : a \in ParseArgs}

(* gamecardInitializeHashFileSystemContext is called and returns, or faults. *)
ParseApply ==
    /\ ~parse.done
    /\ \E ub \in ShaOutcomes :
         parse' = [parse EXCEPT !.done = TRUE, !.r = ParseResult(parse.args, ub)]
    /\ UNCHANGED <<g_gameCardMutex, ifaceVars, infoVars, hfsVars, xVars, evVars, tpc, loadVars,
                   log, signals, inserted, card, sxos, cliVars, hfsdev, loop, iface>>

ParseSpec == ParseInit /\ [][ParseApply]_vars

(* ------------------------------------------------------------------ *)
(* gamecardInitialize and gamecardExit, with what they allocate, open  *)
(* and start.  The state, iface, holds the variables of the interface  *)
(*   init, thread, devop, notifier, kevent: g_gameCardInterfaceInit,    *)
(*     g_gameCardDetectionThreadCreated, g_openDeviceOperator,          *)
(*     g_openEventNotifier, g_loadKernelEvent                           *)
(*   readbuf  g_gameCardReadBuf: 0 for NULL, or the allocation          *)
(*   lafw, status: g_lafwVersion, g_gameCardStatus                      *)
(* what exists outside of them                                          *)
(*   bufs     the allocations of the heap that are not freed            *)
(*   threads, devops, notifiers, kevents: the threads running and the   *)
(*     sessions and handles open                                        *)
(* and of the last call: fn its name, was the value of init it began    *)
(* with, ret its result, did the steps of InitSteps it made; reinit: a  *)
(* call of gamecardInitialize began with the interface not initialized  *)
(* and with resources of an earlier call.                               *)
(* ------------------------------------------------------------------ *)
MaxBufs == 3           \* allocations of GAMECARD_READ_BUFFER_SIZE bytes the heap has room for

(* malloc(GAMECARD_READ_BUFFER_SIZE): an allocation that is not in use, or NULL. *)
Malloc(bufs) ==
    IF Cardinality(bufs) < MaxBufs
    THEN CHOOSE p \in (1..MaxBufs) \ bufs : \A q \in (1..MaxBufs) \ bufs : p <= q
    ELSE 0

(* The number of steps the call can make at most: line 194 stops it when malloc fails. *)
InitUpto(st) == IF Malloc(st.bufs) = 0 THEN 0 ELSE Len(InitSteps)

(* Lines 189-190: the interface is initialized already. *)
InitSkipped(st) == st.init

(* gamecardInitialize (lines 182-247): `upto` steps succeed and the next one fails. *)
gamecardInitializeFrom(st, upto, mask) ==
    IF InitSkipped(st)
    THEN [st EXCEPT !.fn = "gamecardInitialize", !.was = st.init, !.ret = TRUE, !.did = {}]
    ELSE [init |-> upto >= 6,
          thread |-> IF upto >= 5 THEN upto >= 6 ELSE st.thread,
          readbuf |-> IF upto >= 1 THEN Malloc(st.bufs) ELSE 0,
          devop |-> st.devop \/ upto >= 2,
          notifier |-> st.notifier \/ upto >= 3,
          kevent |-> st.kevent \/ upto >= 4,
          lafw |-> IF upto >= 5 THEN LafwVersionFromMask(mask) ELSE st.lafw,
          status |-> st.status,
          bufs |-> IF upto >= 1 THEN st.bufs \cup {Malloc(st.bufs)} ELSE st.bufs,
          threads |-> st.threads + (IF upto >= 6 THEN 1 ELSE 0),
          devops |-> st.devops + (IF upto >= 2 THEN 1 ELSE 0),
          notifiers |-> st.notifiers + (IF upto >= 3 THEN 1 ELSE 0),
          kevents |-> st.kevents + (IF upto >= 4 THEN 1 ELSE 0),
          fn |-> "gamecardInitialize", was |-> st.init, ret |-> upto >= 6,
          did |-> {InitSteps[k] : k \in 1..upto},
          reinit |-> st.reinit \/ st.readbuf # 0 \/ st.devop \/ st.notifier \/ st.kevent]

(* gamecardExit (lines 249-290), the join of gamecardDestroyDetectionThread having
   returned: the thread has run gamecardFreeInfo(true) (line 638). *)
gamecardExitFrom(st) ==
    [st EXCEPT !.init = FALSE, !.thread = FALSE, !.readbuf = 0, !.devop = FALSE,
               !.notifier = FALSE, !.kevent = FALSE,
               !.status = IF st.thread THEN GameCardStatus_NotInserted ELSE st.status,
               !.bufs = st.bufs \ {st.readbuf},
               !.threads = st.threads - (IF st.thread THEN 1 ELSE 0),
               !.devops = st.devops - (IF st.devop THEN 1 ELSE 0),
               !.notifiers = st.notifiers - (IF st.notifier THEN 1 ELSE 0),
               !.kevents = st.kevents - (IF st.kevent THEN 1 ELSE 0),
               !.fn = "gamecardExit", !.was = st.init, !.ret = TRUE, !.did = {}]

(* gamecardGetStatus (lines 304-314). *)
gamecardGetStatusFrom(st) == IF st.init THEN st.status ELSE GameCardStatus_NotInserted

(* What the two functions leave alone. *)
ifaceFrame ==
    <<g_gameCardMutex, ifaceVars, infoVars, hfsVars, xVars, evVars, tpc, loadVars, log,
      signals, inserted, card, sxos, cliVars, hfsdev, loop, parse>>

InitCall ==
    /\ \E upto \in 0..InitUpto(iface), mask \in 0..((2 ^ MaxLafw) - 1) :
         iface' = gamecardInitializeFrom(iface, upto, mask)
    /\ UNCHANGED ifaceFrame

ExitCall ==
    /\ iface' = gamecardExitFrom(iface)
    /\ UNCHANGED ifaceFrame

(* The detection thread, between two calls, sets the status (lines 619, 660-743 and 942). *)
ThreadSetsStatus ==
    /\ iface.threads > 0
    /\ \E status \in GameCardStatus_NotInserted..GameCardStatus_InsertedAndInfoLoaded :
         iface' = [iface EXCEPT !.status = status]
    /\ UNCHANGED ifaceFrame

InitNext == InitCall \/ ExitCall \/ ThreadSetsStatus

InitSpec == Init /\ [][InitNext]_vars

(* ------------------------------------------------------------------ *)
(* hfs_dev.c: the devoptab device of a mounted Hash FS partition.  The  *)
(* state of the device, hfsdev, holds                                   *)
(*   fs_ctx   the entries of the partition (name, size), in table order *)
(*   file     the HashFileSystemFileState of the one file descriptor    *)
(*   errno    r->_errno after the last call ("0": not set by it)        *)
(*   ret      what the last call returned                               *)
(*   op       the last call and its arguments                           *)
(*   dir      the HashFileSystemDirectoryState of the one directory     *)
(*   dirp     the directory is open: diropen has returned its DIR_ITER  *)
(*   listed   the names dirnext has given since diropen or dirreset     *)
(*   st       the stat structure the last call has filled               *)
(*   fill     what hfsdev_fill_stat was last called with: "entry", or   *)
(*            "null" for a null pointer                                 *)
(*   fault    a call has faulted                                        *)
(* Names and paths are sequences of characters; "BAD" stands for a byte *)
(* sequence that is no UTF-8, "CTL" for a control character.            *)
(* ------------------------------------------------------------------ *)
MaxEntries == 2
DevEntries ==
    << [name |-> <<"a">>, size |-> GAMECARD_PAGE_SIZE], [name |-> <<"b", "c">>, size |-> 3],
       [name |-> <<"d">>, size |-> 0], [name |-> <<"e">>, size |-> 1] >>

(* The partitions that can be mounted: the first n of the entries, for each n. *)
DevPartitions == { SubSeq(DevEntries, 1, n) : n \in 0..MaxEntries }

(* The paths the calls are made with. *)
DevPaths ==
    { <<>>, <<"a">>, <<"/", "a">>, <<"h", ":", "/", "a">>, <<"h", ":", "/", "b", "c">>,
      <<"h", ":", "/">>, <<"h", ":", "/", "z">>, <<"h", ":", "/", "a", "/", "b">>,
      <<"h", ":", "a", ":">>, <<"h", ":", "/", "BAD">>, <<"BAD", ":", "/", "a">>,
      <<"h", ":", "/", "a", "CTL">> }

FS_MAX_PATH == 769

NO_ERROR == "0"

(* The flags of open(): each is one bit of its own; O_RDONLY is no bit. *)
OpenFlags ==
    {"O_WRONLY", "O_RDWR", "O_APPEND", "O_CREAT", "O_TRUNC", "O_EXCL", "O_NONBLOCK"}

(* The file state after memset(file, 0, sizeof(HashFileSystemFileState)). *)
ZeroFile == [index |-> 0, hfs_entry |-> NULL, name |-> NULL, offset |-> 0]

(* The directory state after memset(dir, 0, sizeof(HashFileSystemDirectoryState)). *)
ZeroDir == [state |-> 0, index |-> 0]

(* No stat structure has been filled. *)
NoStat == [st_ino |-> 0, st_mode |-> "", st_nlink |-> 0, st_size |-> 0]

(* The device after the mount of partition fs_ctx. *)
Mounted(fs_ctx) ==
    [mounted |-> TRUE, fs_ctx |-> fs_ctx, file |-> ZeroFile, errno |-> NO_ERROR, ret |-> 0,
     op |-> [name |-> "mount"], dir |-> ZeroDir, dirp |-> FALSE, listed |-> <<>>,
     st |-> NoStat, fill |-> "", fault |-> FALSE]

(* Lines 1722-1726 and 1741-1746: where a decode loop that starts at character p of path
   stops, and on what: an invalid sequence ("BAD"), one of the characters of `stops`, a
   control character ("CTL") or the end of the string ("NUL"). *)
RECURSIVE DecodeLoop(_, _, _)
DecodeLoop(path, p, stops) ==
    IF p > Len(path) THEN [at |-> p, code |-> "NUL"]
    ELSE IF path[p] \in ({"BAD", "CTL"} \cup stops) THEN [at |-> p, code |-> path[p]]
    ELSE DecodeLoop(path, p + 1, stops)

(* Lines 1748-1756: path is what is left of the path, checked up to its end. *)
TruncatedPathLength(path, path_sep_skipped) ==
    IF Len(path) = 0 /\ ~path_sep_skipped THEN [errno |-> "EINVAL", path |-> NULL]
    ELSE IF Len(path) >= FS_MAX_PATH THEN [errno |-> "ENAMETOOLONG", path |-> NULL]
    ELSE [errno |-> NO_ERROR, path |-> path]

(* Lines 1738-1746: no colon, no slash and no invalid sequence up to the end or to the
   first control character. *)
TruncatedPathChecked(path, path_sep_skipped, stop) ==
    IF stop.code = "BAD" THEN [errno |-> "EILSEQ", path |-> NULL]
    ELSE IF stop.code \in {":", "/"} THEN [errno |-> "EINVAL", path |-> NULL]
    ELSE TruncatedPathLength(path, path_sep_skipped)

(* Lines 1731-1746: the leading slash is skipped. *)
TruncatedPathSlash(path) ==
    IF Len(path) > 0 /\ path[1] = "/"
    THEN TruncatedPathChecked(Tail(path), TRUE, DecodeLoop(Tail(path), 1, {":", "/"}))
    ELSE TruncatedPathChecked(path, FALSE, DecodeLoop(path, 1, {":", "/"}))

(* Lines 1721-1729: `stop` is where the first loop has stopped. *)
TruncatedPathColon(path, stop) ==
    IF stop.code = "BAD" THEN [errno |-> "EILSEQ", path |-> NULL]
    ELSE IF stop.code = ":" THEN TruncatedPathSlash(SubSeq(path, stop.at + 1, Len(path)))
    ELSE TruncatedPathSlash(path)

(* hfsdev_get_truncated_path(r, path), r and path non-null: the errno it sets and the
   path it returns, NULL with an errno. *)
hfsdev_get_truncated_path(path) ==
    IF Len(path) = 0 THEN [errno |-> "EINVAL", path |-> NULL]
    ELSE TruncatedPathColon(path, DecodeLoop(path, 1, {":"}))

(* hfsGetEntryIndexByName: the index of the first entry of the name, counted from 0, and
   -1 if there is none. *)
hfsGetEntryIndexByName(fs_ctx, name) ==
    IF \E j \in 1..Len(fs_ctx) : fs_ctx[j].name = name
    THEN (CHOOSE j \in 1..Len(fs_ctx) :
              fs_ctx[j].name = name /\ \A k \in 1..(j - 1) : fs_ctx[k].name # name) - 1
    ELSE -1

(* Lines 1433-1435: the file state after the lookup of the entry at index. *)
OpenedFile(fs_ctx, index) ==
    IF index < 0 THEN ZeroFile
    ELSE [index |-> index, hfs_entry |-> fs_ctx[index + 1], name |-> fs_ctx[index + 1].name,
          offset |-> 0]

(* Lines 1425-1440: hfsdev_open from the truncation of the path on. *)
OpenTruncated(dev, op, trunc) ==
    IF trunc.errno # NO_ERROR
    THEN [dev EXCEPT !.errno = trunc.errno, !.ret = -1, !.op = op]
    ELSE [dev EXCEPT !.file = OpenedFile(dev.fs_ctx,
                                          hfsGetEntryIndexByName(dev.fs_ctx, trunc.path)),
                     !.errno = IF hfsGetEntryIndexByName(dev.fs_ctx, trunc.path) < 0
                               THEN "ENOENT" ELSE NO_ERROR,
                     !.ret = IF hfsGetEntryIndexByName(dev.fs_ctx, trunc.path) < 0
                             THEN -1 ELSE 0,
                     !.op = op]

(* The test of the flags without that of O_EXCL. *)
OpenFlagsRejected_NoExcl(flags) ==
    flags \cap {"O_WRONLY", "O_RDWR", "O_APPEND", "O_CREAT", "O_TRUNC"} # {}

(* Line 1423: flags & (O_WRONLY | O_RDWR | O_APPEND | O_CREAT | O_TRUNC | O_EXCL). *)
OpenFlagsRejected(flags) ==
    flags \cap {"O_WRONLY", "O_RDWR", "O_APPEND", "O_CREAT", "O_TRUNC", "O_EXCL"} # {}

(* Lines 1415-1440: hfsdev_open(r, fd, path, flags, mode); fd says that the pointer to the
   file state is not null. *)
hfsdev_open(dev, fd, path, flags) ==
    IF ~fd \/ OpenFlagsRejected(flags)
    THEN [dev EXCEPT !.errno = "EINVAL", !.ret = -1,
                     !.op = [name |-> "open", fd |-> fd, path |-> path, flags |-> flags]]
    ELSE OpenTruncated(dev, [name |-> "open", fd |-> fd, path |-> path, flags |-> flags],
                       hfsdev_get_truncated_path(path))

(* Lines 1442-1457: hfsdev_close(r, fd). *)
hfsdev_close(dev, fd) ==
    IF ~fd THEN [dev EXCEPT !.errno = "EINVAL", !.ret = -1, !.op = [name |-> "close", fd |-> fd]]
    ELSE [dev EXCEPT !.file = ZeroFile, !.errno = NO_ERROR, !.ret = 0,
                     !.op = [name |-> "close", fd |-> fd]]

(* off_t is a signed word as wide as u64: its least and its largest value, the value a
   sum wraps to, and the casts (off_t)x and (u64)x. *)
OFF_MIN == 0 - (2 ^ (U64Bits - 1))
OFF_MAX == (2 ^ (U64Bits - 1)) - 1
OffWrap(x) == ((x - OFF_MIN) % U64Mod) + OFF_MIN
InOff(x) == OFF_MIN <= x /\ x <= OFF_MAX

(* An overflow of signed arithmetic is undefined: the build computes with the wrapped
   value, or goes on from the exact one (it may assume that there is no overflow). *)
SignedOverflowOutcomes == {"wrap", "exact"}
OffValue(x, ub) == IF ub = "wrap" THEN OffWrap(x) ELSE x

(* The arguments of a call that has an error: the call fails and changes nothing else. *)
DevFailed(dev, op, errno) == [dev EXCEPT !.errno = errno, !.ret = -1, !.op = op]

(* hfsReadEntryData(fs_ctx, hfs_entry, ptr, len, offset), the readEntryData of the
   partition: it reads len bytes at offset of the entry, which must hold them, through
   gamecardReadStorage, which succeeds (ok) or fails. *)
hfsReadEntryData(hfs_entry, len, offset, ok) == ok /\ offset + len <= hfs_entry.size

(* Line 1473: file->offset += len. *)
ReadAdvance(offset, len) == U64(offset + len)

(* Lines 1459-1478: hfsdev_read(r, fd, ptr, len); fd is an open descriptor or null, ptr
   says that the buffer is not null. *)
hfsdev_read(dev, fd, ptr, len, ok) ==
    IF ~fd \/ ~ptr \/ len = 0
    THEN DevFailed(dev, [name |-> "read", fd |-> fd, ptr |-> ptr, len |-> len], "EINVAL")
    ELSE IF ~hfsReadEntryData(dev.file.hfs_entry, len, dev.file.offset, ok)
    THEN DevFailed(dev, [name |-> "read", fd |-> fd, ptr |-> ptr, len |-> len], "EIO")
    ELSE [dev EXCEPT !.file.offset = ReadAdvance(dev.file.offset, len),
                     !.errno = NO_ERROR, !.ret = len,
                     !.op = [name |-> "read", fd |-> fd, ptr |-> ptr, len |-> len]]

Whences == {"SEEK_SET", "SEEK_CUR", "SEEK_END"}

(* Lines 1490-1503: the offset to seek from. *)
SeekBase(file, dir) ==
    IF dir = "SEEK_SET" THEN 0
    ELSE IF dir = "SEEK_CUR" THEN OffWrap(file.offset)
    ELSE OffWrap(file.hfs_entry.size)

(* Line 1505: pos < 0 && offset < -pos; -pos overflows for the least value of off_t. *)
SeekBeforeStart(offset, pos, ub) == pos < 0 /\ offset < OffValue(0 - pos, ub)

(* Lines 1508-1516: offset += pos, which may overflow, the test of the end of the file
   and the assignment of the offset. *)
SeekTo(dev, op, offset) ==
    IF offset > OffWrap(dev.file.hfs_entry.size) THEN DevFailed(dev, op, "EINVAL")
    ELSE [dev EXCEPT !.file.offset = U64(offset), !.errno = NO_ERROR, !.ret = OffWrap(offset),
                     !.op = op]

(* Lines 1480-1521: hfsdev_seek(r, fd, pos, dir). *)
hfsdev_seek(dev, fd, pos, dir, ub) ==
    IF ~fd \/ dir \notin Whences
    THEN DevFailed(dev, [name |-> "seek", fd |-> fd, pos |-> pos, dir |-> dir], "EINVAL")
    ELSE IF SeekBeforeStart(SeekBase(dev.file, dir), pos, ub)
    THEN DevFailed(dev, [name |-> "seek", fd |-> fd, pos |-> pos, dir |-> dir], "EINVAL")
    ELSE SeekTo(dev, [name |-> "seek", fd |-> fd, pos |-> pos, dir |-> dir],
                OffValue(SeekBase(dev.file, dir) + pos, ub))

(* Lines 1759-1771: hfsdev_fill_stat(st, index, hfs_entry, mount_time) for an entry. *)
hfsdev_fill_stat(index, hfs_entry) ==
    [st_ino |-> index, st_mode |-> "S_IFREG", st_nlink |-> 1, st_size |-> hfs_entry.size]

(* The read of hfs_entry->size through a null pointer is undefined: the call faults, or
   the structure is filled with the bytes found there. *)
NullEntryOutcomes == {"fault", "garbage"}
NullStat(index) == [st_ino |-> index, st_mode |-> "S_IFREG", st_nlink |-> 1, st_size |-> -1]

(* The device as a call finds it: the stat structure is the caller's, for this call. *)
DevCall(dev) == [dev EXCEPT !.st = NoStat, !.fill = ""]

(* A call that has faulted: it does not return, and no call is made after it. *)
DevFault(dev, op) == [dev EXCEPT !.fault = TRUE, !.op = op, !.fill = "null"]

(* Lines 1523-1538: hfsdev_fstat(r, fd, st). *)
hfsdev_fstat(dev, fd, st) ==
    IF ~fd \/ ~st THEN DevFailed(dev, [name |-> "fstat", fd |-> fd, st |-> st], "EINVAL")
    ELSE [dev EXCEPT !.st = hfsdev_fill_stat(dev.file.index, dev.file.hfs_entry),
                     !.fill = "entry", !.errno = NO_ERROR, !.ret = 0,
                     !.op = [name |-> "fstat", fd |-> fd, st |-> st]]

(* Lines 1557-1564: hfsdev_stat after the lookup of the name, index being -1 if no entry
   has it: then `index` is 0 and hfs_entry NULL still, DEVOPTAB_SET_ERROR(ENOENT) sets the
   error and goes on, and hfsdev_fill_stat is called with them. *)
StatLookedUp(dev, op, index, ub) ==
    IF index >= 0
    THEN [dev EXCEPT !.st = hfsdev_fill_stat(index, dev.fs_ctx[index + 1]), !.fill = "entry",
                     !.errno = NO_ERROR, !.ret = 0, !.op = op]
    ELSE IF ub = "fault" THEN DevFault(dev, op)
    ELSE [dev EXCEPT !.st = NullStat(0), !.fill = "null", !.errno = "ENOENT", !.ret = -1,
                     !.op = op]

(* Lines 1549-1564: hfsdev_stat from the truncation of the path on. *)
StatTruncated(dev, op, trunc, ub) ==
    IF trunc.errno # NO_ERROR THEN DevFailed(dev, op, trunc.errno)
    ELSE StatLookedUp(dev, op, hfsGetEntryIndexByName(dev.fs_ctx, trunc.path), ub)

(* Lines 1540-1565: hfsdev_stat(r, file, st). *)
hfsdev_stat(dev, path, st, ub) ==
    IF ~st THEN DevFailed(dev, [name |-> "stat", path |-> path, st |-> st], "EINVAL")
    ELSE StatTruncated(dev, [name |-> "stat", path |-> path, st |-> st],
                       hfsdev_get_truncated_path(path), ub)

(* Line 1576: the truncated path is the empty one, its first character being NUL. *)
DirPathIsRoot(path) == Len(path) = 0

(* Lines 1575-1584: hfsdev_diropen from the truncation of the path on. *)
DirOpenTruncated(dev, op, trunc) ==
    IF trunc.errno # NO_ERROR THEN [DevFailed(dev, op, trunc.errno) EXCEPT !.ret = 0]
    ELSE IF ~DirPathIsRoot(trunc.path) THEN [DevFailed(dev, op, "ENOENT") EXCEPT !.ret = 0]
    ELSE [dev EXCEPT !.dir = ZeroDir, !.dirp = TRUE, !.listed = <<>>, !.errno = NO_ERROR,
                     !.ret = 1, !.op = op]

(* Lines 1567-1589: hfsdev_diropen(r, dirState, path); it returns dirState (1), or NULL
   (0). *)
hfsdev_diropen(dev, path) ==
    DirOpenTruncated(dev, [name |-> "diropen", path |-> path], hfsdev_get_truncated_path(path))

(* Lines 1591-1604: hfsdev_dirreset(r, dirState). *)
hfsdev_dirreset(dev) ==
    [dev EXCEPT !.dir = ZeroDir, !.listed = <<>>, !.errno = NO_ERROR, !.ret = 0,
                !.op = [name |-> "dirreset"]]

(* Lines 1619-1633: the entries "." and "..". *)
DotName(state) == IF state = 0 THEN <<".">> ELSE <<".", ".">>
DotStat == [st_ino |-> 0, st_mode |-> "S_IFDIR", st_nlink |-> 1, st_size |-> 0]

(* The test of the end of the directory that lets one more call through. *)
DirAtEnd_Late(index, fs_ctx) == index > Len(fs_ctx)

(* Line 1637: dir->index >= hfsGetEntryCount(fs_ctx). *)
DirAtEnd(index, fs_ctx) == index >= Len(fs_ctx)

(* hfsGetEntryByIndex(fs_ctx, index): the entry, or NULL if there is none. *)
hfsGetEntryByIndex(fs_ctx, index) ==
    IF index >= 0 /\ index < Len(fs_ctx) THEN fs_ctx[index + 1] ELSE NULL

(* Lines 1606-1654: hfsdev_dirnext(r, dirState, filename, filestat); `listed` gets the
   name the call gives. *)
hfsdev_dirnext(dev, filename, filestat) ==
    IF ~filename \/ ~filestat
    THEN DevFailed(dev, [name |-> "dirnext", filename |-> filename, filestat |-> filestat],
                   "EINVAL")
    ELSE IF dev.dir.state < 2
    THEN [dev EXCEPT !.dir.state = dev.dir.state + 1, !.st = DotStat,
                     !.listed = Append(dev.listed, DotName(dev.dir.state)),
                     !.errno = NO_ERROR, !.ret = 0,
                     !.op = [name |-> "dirnext", filename |-> filename,
                             filestat |-> filestat]]
    ELSE IF DirAtEnd(dev.dir.index, dev.fs_ctx)
    THEN DevFailed(dev, [name |-> "dirnext", filename |-> filename, filestat |-> filestat],
                   "ENOENT")
    ELSE IF hfsGetEntryByIndex(dev.fs_ctx, dev.dir.index) = NULL
    THEN DevFailed(dev, [name |-> "dirnext", filename |-> filename, filestat |-> filestat],
                   "EIO")
    ELSE [dev EXCEPT !.dir.index = dev.dir.index + 1,
                     !.st = hfsdev_fill_stat(dev.dir.index,
                                             hfsGetEntryByIndex(dev.fs_ctx, dev.dir.index)),
                     !.fill = "entry",
                     !.listed = Append(dev.listed,
                                       hfsGetEntryByIndex(dev.fs_ctx, dev.dir.index).name),
                     !.errno = NO_ERROR, !.ret = 0,
                     !.op = [name |-> "dirnext", filename |-> filename,
                             filestat |-> filestat]]

(* Lines 1656-1668: hfsdev_dirclose(r, dirState). *)
hfsdev_dirclose(dev) ==
    [dev EXCEPT !.dir = ZeroDir, !.dirp = FALSE, !.listed = <<>>, !.errno = NO_ERROR,
                !.ret = 0, !.op = [name |-> "dirclose"]]

(* Lines 1375-1408: the handler hfsdev_devoptab binds to each call. *)
hfsdev_devoptab ==
    [ open_r |-> "hfsdev_open", close_r |-> "hfsdev_close", write_r |-> "rodev_write",
      read_r |-> "hfsdev_read", seek_r |-> "hfsdev_seek", fstat_r |-> "hfsdev_fstat",
      stat_r |-> "hfsdev_stat", link_r |-> "rodev_link", unlink_r |-> "rodev_unlink",
      chdir_r |-> "rodev_chdir", rename_r |-> "rodev_rename", mkdir_r |-> "rodev_mkdir",
      diropen_r |-> "hfsdev_diropen", dirreset_r |-> "hfsdev_dirreset",
      dirnext_r |-> "hfsdev_dirnext", dirclose_r |-> "hfsdev_dirclose",
      statvfs_r |-> "hfsdev_statvfs", ftruncate_r |-> "rodev_ftruncate",
      fsync_r |-> "rodev_fsync", chmod_r |-> "rodev_chmod", fchmod_r |-> "rodev_fchmod",
      rmdir_r |-> "rodev_rmdir", lstat_r |-> "hfsdev_stat", utimes_r |-> "rodev_utimes",
      fpathconf_r |-> "rodev_fpathconf", pathconf_r |-> "rodev_pathconf",
      symlink_r |-> "rodev_symlink", readlink_r |-> "rodev_readlink" ]

(* The handlers of ro_dev.h: each rejects the call it is bound to. *)
RoDevHandlers ==
    { "rodev_write", "rodev_link", "rodev_unlink", "rodev_chdir", "rodev_rename",
      "rodev_mkdir", "rodev_ftruncate", "rodev_fsync", "rodev_chmod", "rodev_fchmod",
      "rodev_rmdir", "rodev_utimes", "rodev_fpathconf", "rodev_pathconf", "rodev_symlink",
      "rodev_readlink" }

(* A handler of ro_dev.h is called: it changes nothing, sets an errno and fails. *)
rodev(dev, call_r, errno) ==
    [dev EXCEPT !.errno = errno, !.ret = -1, !.op = [name |-> call_r]]

(* The calls of the device that hfs_dev.c leaves to the handlers of ro_dev.h. *)
RoDevCalls == {f \in DOMAIN hfsdev_devoptab : hfsdev_devoptab[f] \in RoDevHandlers}

(* A partition is mounted. *)
DevInit ==
    /\ InterfaceInit
    /\ loop = NoLoop
    /\ parse = NoParse
    /\ iface = NoIface
    /\ hfsdev \in {Mounted(fs_ctx) : fs_ctx \in DevPartitions}

coreVars ==
    <<g_gameCardMutex, ifaceVars, infoVars, hfsVars, xVars, evVars, tpc, loadVars, log,
      signals, inserted, card, sxos, cliVars, loop, parse, iface>>

(* The calls of open() made: for reading with each of the paths, and with each set of
   flags for the path of the first entry. *)
DevOpenCalls ==
    [fd : BOOLEAN, path : DevPaths, flags : {{}, {"O_NONBLOCK"}}]
    \cup [fd : {TRUE}, path : {<<"h", ":", "/", "a">>}, flags : SUBSET OpenFlags]

(* open() on the device. *)
DevOpen ==
    /\ ~hfsdev.fault
    /\ \E a \in DevOpenCalls : hfsdev' = hfsdev_open(DevCall(hfsdev), a.fd, a.path, a.flags)
    /\ UNCHANGED coreVars

(* close() on the device. *)
DevClose ==
    /\ ~hfsdev.fault
    /\ \E fd \in BOOLEAN : hfsdev' = hfsdev_close(DevCall(hfsdev), fd)
    /\ UNCHANGED coreVars

(* A call that hfsdev_devoptab binds to a handler of ro_dev.h. *)
DevRoCall ==
    /\ ~hfsdev.fault
    /\ \E call_r \in RoDevCalls, errno \in {"EROFS", "ENOSYS"} :
         hfsdev' = rodev(DevCall(hfsdev), call_r, errno)
    /\ UNCHANGED coreVars

(* The descriptor is that of a file hfsdev_open has opened, with its offset inside the
   entry: a file whose offset has left the entry is not read or moved further. *)
FileOpen == hfsdev.file.hfs_entry # NULL /\ hfsdev.file.offset <= hfsdev.file.hfs_entry.size

(* The lengths and distances the calls are made with, for a file of the size. *)
DevSteps(size) == {0, size \div 2, size, size + 1}
SeekPositions(size) ==
    DevSteps(size) \cup {0 - n : n \in DevSteps(size)} \cup {OFF_MIN, OFF_MAX}

(* read() on the open file. *)
DevRead ==
    /\ ~hfsdev.fault
    /\ FileOpen
    /\ \E fd \in BOOLEAN, ptr \in BOOLEAN, ok \in BOOLEAN :
       \E len \in DevSteps(hfsdev.file.hfs_entry.size) :
         hfsdev' = hfsdev_read(DevCall(hfsdev), fd, ptr, len, ok)
    /\ UNCHANGED coreVars

(* lseek() on the open file. *)
DevSeek ==
    /\ ~hfsdev.fault
    /\ FileOpen
    /\ \E fd \in BOOLEAN, dir \in Whences \cup {"other"}, ub \in SignedOverflowOutcomes :
       \E pos \in SeekPositions(hfsdev.file.hfs_entry.size) :
         hfsdev' = hfsdev_seek(DevCall(hfsdev), fd, pos, dir, ub)
    /\ UNCHANGED coreVars

(* fstat() on the open file. *)
DevFstat ==
    /\ ~hfsdev.fault
    /\ FileOpen
    /\ \E fd \in BOOLEAN, st \in BOOLEAN : hfsdev' = hfsdev_fstat(DevCall(hfsdev), fd, st)
    /\ UNCHANGED coreVars

(* stat() and lstat() on the device. *)
DevStat ==
    /\ ~hfsdev.fault
    /\ \E path \in DevPaths, st \in BOOLEAN, ub \in NullEntryOutcomes :
         hfsdev' = hfsdev_stat(DevCall(hfsdev), path, st, ub)
    /\ UNCHANGED coreVars

(* opendir() on the device. *)
DevDirOpen ==
    /\ ~hfsdev.fault
    /\ ~hfsdev.dirp
    /\ \E path \in DevPaths : hfsdev' = hfsdev_diropen(DevCall(hfsdev), path)
    /\ UNCHANGED coreVars

(* rewinddir() on the open directory. *)
DevDirReset ==
    /\ ~hfsdev.fault
    /\ hfsdev.dirp
    /\ hfsdev' = hfsdev_dirreset(DevCall(hfsdev))
    /\ UNCHANGED coreVars

(* readdir() on the open directory. *)
DevDirNext ==
    /\ ~hfsdev.fault
    /\ hfsdev.dirp
    /\ \E filename \in BOOLEAN, filestat \in BOOLEAN :
         hfsdev' = hfsdev_dirnext(DevCall(hfsdev), filename, filestat)
    /\ UNCHANGED coreVars

(* closedir() on the open directory. *)
DevDirClose ==
    /\ ~hfsdev.fault
    /\ hfsdev.dirp
    /\ hfsdev' = hfsdev_dirclose(DevCall(hfsdev))
    /\ UNCHANGED coreVars

DevNext == DevOpen \/ DevClose \/ DevRoCall

DevSpec == DevInit /\ [][DevNext]_vars

(* open() for reading, with each of the paths. *)
DevOpenRead ==
    /\ ~hfsdev.fault
    /\ \E path \in DevPaths : hfsdev' = hfsdev_open(DevCall(hfsdev), TRUE, path, {})
    /\ UNCHANGED coreVars

(* The calls on files: the descriptor is opened for reading, read, moved and closed. *)
FileNext == DevOpenRead \/ DevClose \/ DevRead \/ DevSeek \/ DevFstat \/ DevStat

FileSpec == DevInit /\ [][FileNext]_vars

(* The calls on the directory of the device, which leave the file state alone as the calls
   on files leave the directory state alone. *)
DirNext == DevDirOpen \/ DevDirReset \/ DevDirNext \/ DevDirClose

DirSpec == DevInit /\ [][DirNext]_vars

(* ------------------------------------------------------------------ *)
(* Properties.                                                          *)
(* ------------------------------------------------------------------ *)
Loaded == g_gameCardStatus = GameCardStatus_InsertedAndInfoLoaded

(* gamecardFreeInfo(true) is between its first and its last statement. *)
InFreeInfo == tpc \in {"h_clear", "x_clear"}

LoadSteps ==
    {"begin", "header", "decrypt", "gate", "sizes", "capacity", "root", "array", "child",
     "loaded", "end"}

(* The steps of the run of gamecardLoadInfo the log holds, in the order they were made. *)
LoadLog == SelectSeq(log, LAMBDA e : e.step \in LoadSteps)

LoadStepMade(step) == \E p \in 1..Len(LoadLog) : LoadLog[p].step = step
LoadStepFailed(step) == \E p \in 1..Len(LoadLog) : LoadLog[p].step = step /\ ~LoadLog[p].ok

(* gamecardLoadInfo has returned to the detection thread, after running its steps. *)
LoadReturned == tpc = "signal" /\ LoadStepMade("end")

(* Node j of the partition tree is a parsed Hash FS context. *)
NodeParsed(j) ==
    /\ g_gameCardHfsCtx[j] # NULL
    /\ g_gameCardHfsCtx[j].header.magic
    /\ g_gameCardHfsCtx[j].header.name_table_size # 0
    /\ g_gameCardHfsCtx[j].header_size # 0
    /\ g_gameCardHfsCtx[j].type < GameCardHashFileSystemPartitionType_Count

(* The header, the geometry and the partition tree are all there and fit each other. *)
InfoComplete ==
    /\ g_gameCardHeader.magic
    /\ g_gameCardNormalAreaSize # 0
    /\ g_gameCardSecureAreaSize # 0
    /\ g_gameCardTotalSize # 0
    /\ g_gameCardCapacity # 0
    /\ g_gameCardHfsCtx # NULL
    /\ Len(g_gameCardHfsCtx) = g_gameCardHfsCount
    /\ g_gameCardHfsCount >= 2
    /\ g_gameCardHfsCtx[1] # NULL
    /\ g_gameCardHfsCount = g_gameCardHfsCtx[1].header.entry_count + 1
    /\ \A j \in 1..g_gameCardHfsCount :
         /\ NodeParsed(j)
         /\ IS_ALIGNED(g_gameCardHfsCtx[j].offset, GAMECARD_PAGE_SIZE)
         /\ g_gameCardHfsCtx[j].offset < g_gameCardTotalSize

(* C1: in every state with the status InsertedAndInfoLoaded (gamecardFreeInfo not being
   in the middle of clearing it) the header has its magic, the normal, secure and total
   sizes and the capacity are nonzero, the context array is there with as many slots as
   the root has entries plus one (two at least), every slot holds a parsed node, and the
   offset of every node is page aligned and below the total size. *)
C1_LoadedInfoIsComplete == (Loaded /\ ~InFreeInfo) => InfoComplete

(* A card with MaxChildren partitions is loaded and the detection thread is back in its wait. *)
C1_Witness ==
    /\ Loaded
    /\ tpc = "wait"
    /\ g_gameCardHfsCount = MaxChildren + 1
    /\ \A j \in 1..g_gameCardHfsCount : NodeParsed(j)

(* C2: with the header read and the CardInfo area decrypted, the load goes on past the
   firmware gate if and only if the installed LAFW version is greater than the version
   the card requires; otherwise (equality included) the status becomes
   LotusAsicFirmwareUpdateRequired and no later step is made. *)
C2_FirmwareGate ==
    /\ \A p \in 1..Len(LoadLog) :
         (LoadLog[p].step = "gate" /\ ~LoadLog[p].ok) =>
             \/ p = Len(LoadLog)
             \/ (p + 1 = Len(LoadLog) /\ LoadLog[p + 1].step = "end")
    /\ (LoadLog # <<>> /\ LoadLog[Len(LoadLog)].step = "gate") =>
         /\ LoadStepMade("header") /\ ~LoadStepFailed("header")
         /\ LoadStepMade("decrypt") /\ ~LoadStepFailed("decrypt")
         /\ LoadLog[Len(LoadLog)].ok <=> (g_lafwVersion > g_gameCardInfoArea.fw_version)
         /\ LoadLog[Len(LoadLog)].ok =>
              tpc = "load_sizes" /\ g_gameCardStatus = GameCardStatus_InsertedAndInfoNotLoaded
         /\ ~LoadLog[Len(LoadLog)].ok =>
              /\ tpc = "load_end"
              /\ g_gameCardStatus = GameCardStatus_LotusAsicFirmwareUpdateRequired
    /\ (LoadReturned /\ LoadStepFailed("gate")) =>
         g_gameCardStatus = GameCardStatus_LotusAsicFirmwareUpdateRequired

(* The gate has just stopped a card that requires exactly the installed version. *)
C2_Witness ==
    /\ tpc = "load_end"
    /\ LoadStepFailed("gate")
    /\ g_gameCardInterfaceInit
    /\ g_lafwVersion = MaxLafw
    /\ g_gameCardInfoArea.fw_version = g_lafwVersion
    /\ g_gameCardStatus = GameCardStatus_LotusAsicFirmwareUpdateRequired

StepRank(step) ==
    CASE step = "begin" -> 1 [] step = "header" -> 2 [] step = "decrypt" -> 3
      [] step = "gate" -> 4 [] step = "sizes" -> 5 [] step = "capacity" -> 6
      [] step = "root" -> 7 [] step = "array" -> 8 [] step = "child" -> 9
      [] step = "loaded" -> 10 [] OTHER -> 11

(* C3: gamecardLoadInfo makes its steps in the one order read header, decrypt CardInfo,
   firmware gate, area sizes, capacity, root partition, child partitions in the order
   of the root table; a step is made only if all steps before it succeeded, so that a
   failed header read, decrypt or gate leaves the area sizes unqueried, the secure
   area unopened and no partition read. *)
C3_StepOrder ==
    /\ LoadLog # <<>> => LoadLog[1].step = "begin"
    /\ \A p \in 1..(Len(LoadLog) - 1) :
         /\ LoadLog[p].step # "end"
         /\ LoadLog[p + 1].step # "end" =>
              /\ \A q \in 1..p : LoadLog[q].ok
              /\ \/ StepRank(LoadLog[p + 1].step) = StepRank(LoadLog[p].step) + 1
                 \/ LoadLog[p].step = "child" /\ LoadLog[p + 1].step = "child"
    /\ (LoadLog # <<>> /\ ~LoadStepMade("sizes")) =>
         /\ g_gameCardCurrentStorageArea # GameCardStorageArea_Secure
         /\ g_gameCardNormalAreaSize = 0 /\ g_gameCardSecureAreaSize = 0
         /\ g_gameCardTotalSize = 0
         /\ root_fs_ctx = NULL /\ g_gameCardHfsCtx = NULL /\ heap = {}
    /\ (InLoadInfo /\ g_gameCardHfsCtx # NULL) =>
         \A j \in 1..Len(g_gameCardHfsCtx) :
            /\ g_gameCardHfsCtx[j] # NULL <=> j <= i + 1
            /\ (j > 1 /\ j <= i + 1) =>
                 g_gameCardHfsCtx[j].name = root_fs_ctx.header.entries[j - 1].name

(* The decryption of the CardInfo area has failed and gamecardLoadInfo is at its end. *)
C3_Witness ==
    /\ tpc = "load_end"
    /\ Len(LoadLog) = 3
    /\ LoadLog[2].step = "header" /\ LoadLog[2].ok
    /\ LoadLog[3].step = "decrypt" /\ ~LoadLog[3].ok

(* C4: whenever gamecardLoadInfo returns after running its steps, the status is one of
   InsertedAndInfoLoaded, LotusAsicFirmwareUpdateRequired, NoGameCardPatchEnabled and
   InsertedAndInfoNotLoaded, never NotInserted; it is InsertedAndInfoLoaded exactly if
   every step succeeded. *)
C4_LoadOutcome ==
    LoadReturned =>
        /\ g_gameCardStatus \in {GameCardStatus_InsertedAndInfoLoaded,
                                 GameCardStatus_LotusAsicFirmwareUpdateRequired,
                                 GameCardStatus_NoGameCardPatchEnabled,
                                 GameCardStatus_InsertedAndInfoNotLoaded}
        /\ g_gameCardStatus # GameCardStatus_NotInserted
        /\ Loaded <=> /\ LoadStepMade("loaded")
                      /\ \A p \in 1..Len(LoadLog) : LoadLog[p].step # "end" => LoadLog[p].ok

(* gamecardLoadInfo has returned with the normal area found inaccessible. *)
C4_Witness ==
    /\ LoadReturned
    /\ g_gameCardStatus = GameCardStatus_NoGameCardPatchEnabled

(* Everything gamecardFreeInfo releases is released, and everything it clears is clear. *)
InfoReleased ==
    /\ g_gameCardHfsCtx = NULL
    /\ g_gameCardHfsCount = 0
    /\ heap = {}
    /\ ~g_gameCardStorage
    /\ ~g_gameCardHandle
    /\ g_gameCardCurrentStorageArea = GameCardStorageArea_None
    /\ g_gameCardHeader = ZeroHeader
    /\ g_gameCardInfoArea = ZeroInfoArea
    /\ g_gameCardNormalAreaSize = 0
    /\ g_gameCardSecureAreaSize = 0
    /\ g_gameCardTotalSize = 0
    /\ g_gameCardCapacity = 0

(* C5: after gamecardLoadInfo returns with a status other than InsertedAndInfoLoaded,
   and after gamecardFreeInfo, every context allocated is freed, and freed once (the
   root as well if the array was never allocated), the array pointer is NULL, the count
   is 0, the storage area is closed with the current area None, and the header, the
   CardInfo area, the three sizes and the capacity are zero. *)
C5_TeardownIsComplete ==
    /\ ~badFree
    /\ ((tpc = "signal" /\ ~Loaded) \/ tpc \in {"h_clear", "h_check", "x_clear", "done"})
          => InfoReleased

(* gamecardLoadInfo has returned after the second child partition failed to parse, the
   first one being parsed and held by the array. *)
C5_Witness ==
    /\ LoadReturned
    /\ ~Loaded
    /\ InfoReleased
    /\ \E p \in 1..(Len(LoadLog) - 1) :
         /\ LoadLog[p].step = "child" /\ LoadLog[p].ok
         /\ LoadLog[p + 1].step = "child" /\ ~LoadLog[p + 1].ok

LoadStepNoted(step, note) ==
    \E p \in 1..Len(LoadLog) : LoadLog[p].step = step /\ LoadLog[p].note = note

(* C6 as the specification states it: after a failed load that neither the firmware gate
   nor the access to the normal area stopped, the status is back at NotInserted. *)
C6_StatusRolledBackToNotInserted ==
    (LoadReturned /\ ~Loaded
     /\ g_gameCardStatus \notin {GameCardStatus_LotusAsicFirmwareUpdateRequired,
                                 GameCardStatus_NoGameCardPatchEnabled})
        => g_gameCardStatus = GameCardStatus_NotInserted

(* C6: after a failed load everything the load built is released and cleared, and the
   status is LotusAsicFirmwareUpdateRequired exactly if the firmware gate stopped it,
   NoGameCardPatchEnabled only if a step that opens the normal area failed, and
   InsertedAndInfoNotLoaded otherwise: after a header without the magic word, a missing
   CardInfo key, an unsupported capacity, a partition that fails to parse, a hash
   mismatch or a failed allocation.  It is never NotInserted. *)
C6_FailedLoadStatus ==
    (LoadReturned /\ ~Loaded) =>
        /\ InfoReleased
        /\ g_gameCardStatus \in {GameCardStatus_InsertedAndInfoNotLoaded,
                                 GameCardStatus_LotusAsicFirmwareUpdateRequired,
                                 GameCardStatus_NoGameCardPatchEnabled}
        /\ g_gameCardStatus = GameCardStatus_LotusAsicFirmwareUpdateRequired
              <=> LoadStepFailed("gate")
        /\ g_gameCardStatus = GameCardStatus_NoGameCardPatchEnabled =>
              \/ LoadStepFailed("header") \/ LoadStepFailed("sizes")
              \/ LoadStepFailed("root") \/ LoadStepFailed("child")
        /\ (\/ LoadStepNoted("header", "magic") \/ LoadStepFailed("decrypt")
            \/ LoadStepFailed("capacity") \/ LoadStepFailed("array")
            \/ LoadStepNoted("root", "mismatch") \/ LoadStepNoted("child", "mismatch"))
              => g_gameCardStatus = GameCardStatus_InsertedAndInfoNotLoaded

(* gamecardLoadInfo has returned after finding a capacity it does not support. *)
C6_Witness ==
    /\ LoadReturned
    /\ LoadStepFailed("capacity")
    /\ g_gameCardStatus = GameCardStatus_InsertedAndInfoNotLoaded
    /\ InfoReleased

(* The hash of node j of the tree is the one its parent stores for it, if the window the
   parent names lies within the header of the node. *)
NodeHashMatches(j) ==
    LET node == g_gameCardHfsCtx[j]
        e == g_gameCardHfsCtx[1].header.entries[j - 1]
        hash == IF j = 1 THEN g_gameCardHeader.partition_fs_header_hash ELSE e.hash
        hash_target_offset == IF j = 1 THEN 0 ELSE e.hash_target_offset
        hash_target_size == IF j = 1 THEN g_gameCardHeader.partition_fs_header_size
                                     ELSE e.hash_target_size
    IN  (hash_target_size # 0 /\ hash_target_offset + hash_target_size <= node.header_size)
            => node.header.digest = hash

(* C7: a SHA-256 mismatch at the root or at a child partition, found with the hashed
   window inside the header, fails the node; no later step is made, the load returns
   with a status other than InsertedAndInfoLoaded and with every context parsed before
   freed.  No node whose checked hash differs is ever in the tree. *)
C7_HashMismatchAborts ==
    /\ \A p \in 1..Len(LoadLog) :
         LoadLog[p].note = "mismatch" =>
            /\ ~LoadLog[p].ok
            /\ \/ p = Len(LoadLog)
               \/ (p + 1 = Len(LoadLog) /\ LoadLog[p + 1].step = "end")
    /\ (LoadReturned /\ (LoadStepNoted("root", "mismatch") \/ LoadStepNoted("child", "mismatch")))
          => /\ ~Loaded
             /\ heap = {}
             /\ g_gameCardHfsCtx = NULL
             /\ g_gameCardHfsCount = 0
    /\ g_gameCardHfsCtx # NULL =>
          \A j \in 1..Len(g_gameCardHfsCtx) : g_gameCardHfsCtx[j] # NULL => NodeHashMatches(j)

(* The hash of the second child partition did not match, the first child being parsed:
   gamecardLoadInfo has returned with both contexts freed. *)
C7_Witness ==
    /\ LoadReturned
    /\ ~Loaded
    /\ heap = {}
    /\ \E p \in 1..(Len(LoadLog) - 1) :
         /\ LoadLog[p].step = "child" /\ LoadLog[p].ok
         /\ LoadLog[p + 1].step = "child" /\ LoadLog[p + 1].note = "mismatch"

(* Every getter of card data fails. *)
GettersFail ==
    /\ ~gamecardGetHeader(TRUE).ok
    /\ ~gamecardGetTotalSize(TRUE).ok
    /\ ~gamecardGetRomCapacity(TRUE).ok
    /\ \A type \in 0..GameCardHashFileSystemPartitionType_Count :
         ~gamecardGetHashFileSystemContext(type, TRUE).ok

C8_States ==
    /\ (LoadReturned /\ \A p \in 1..(Len(LoadLog) - 1) : LoadLog[p].ok) =>
          /\ Loaded
          /\ LoadLog[1].step = "begin" /\ LoadLog[Len(LoadLog) - 1].step = "loaded"
    /\ (LoadReturned /\ LoadStepFailed("header")) =>
          /\ g_gameCardStatus \in {GameCardStatus_InsertedAndInfoNotLoaded,
                                   GameCardStatus_NoGameCardPatchEnabled}
          /\ GettersFail
    /\ ~Loaded => GettersFail
    /\ \A c \in Clients :
         (cpc[c] = "query" /\ ~Loaded) =>
            /\ GettersFail
            /\ InfoReleased
            /\ gamecardGetStatus.val # GameCardStatus_InsertedAndInfoLoaded
            /\ g_gameCardInterfaceInit => gamecardGetStatus.val = g_gameCardStatus

C8_Steps ==
    g_gameCardStatus' # g_gameCardStatus =>
        /\ g_gameCardStatus' = GameCardStatus_InsertedAndInfoNotLoaded
              => g_gameCardStatus = GameCardStatus_NotInserted
        /\ g_gameCardStatus' \in {GameCardStatus_InsertedAndInfoLoaded,
                                  GameCardStatus_LotusAsicFirmwareUpdateRequired,
                                  GameCardStatus_NoGameCardPatchEnabled}
              => g_gameCardStatus = GameCardStatus_InsertedAndInfoNotLoaded

(* C8: the status of a card goes from NotInserted to InsertedAndInfoNotLoaded and from
   there to InsertedAndInfoLoaded (or to a terminal other than loaded), and it is
   InsertedAndInfoLoaded when every step of the load succeeded.  After a header read that
   fails the status is a terminal other than loaded, which gamecardGetStatus returns, and
   while the status is not InsertedAndInfoLoaded the getters of the header, the sizes and
   the Hash FS contexts fail: no data of a card loaded before is left to return. *)
C8_StatusProgress == []C8_States /\ [][C8_Steps]_vars

(* gamecardLoadInfo has returned after reading a header without the magic word. *)
C8_Witness ==
    /\ LoadReturned
    /\ LoadStepNoted("header", "magic")
    /\ g_gameCardInterfaceInit
    /\ gamecardGetStatus.val = GameCardStatus_InsertedAndInfoNotLoaded
    /\ GettersFail

(* The detection thread is in one of its SCOPED_LOCK blocks. *)
DetLocked ==
    InLoadInfo \/ tpc \in {"start_check", "h_free", "h_clear", "h_check", "signal"}

(* The detection thread has found the slot empty after tearing down a loaded card. *)
RemovalHandled ==
    /\ tpc = "signal"
    /\ Len(log) = 2
    /\ log[1].step = "free" /\ log[1].note = "loaded"
    /\ log[2].step = "check" /\ ~log[2].ok

(* C9: when the detection thread handles the removal of a loaded card, every context of
   the tree is freed, the storage area is closed, the cached data is cleared and the
   status is NotInserted, all before the status change event is signalled; the event is
   signalled once for the detection signal handled. *)
C9_RemovalTeardown ==
    /\ (tpc = "h_check" /\ log # <<>> /\ log[1].note = "loaded") =>
          InfoReleased /\ g_gameCardStatus = GameCardStatus_NotInserted
    /\ RemovalHandled =>
          /\ InfoReleased
          /\ ~badFree
          /\ g_gameCardStatus = GameCardStatus_NotInserted
          /\ g_gameCardMutex = DetThread
    /\ DetLocked => signals = 0
    /\ tpc = "wait" => signals = 1 /\ g_gameCardStatusChangeEvent

(* The removal of a loaded card is handled, the event not yet signalled. *)
C9_Witness == RemovalHandled /\ ~inserted /\ heap = {} /\ signals = 0

(* C10: the getters and gamecardReadStorage use the shared state only with the mutex
   held, the detection thread loads and tears down only with the mutex held (or, at its
   exit, while gamecardExit holds it), so a call never runs next to a load or a teardown
   and never finds the status InsertedAndInfoLoaded with a tree partly built or with
   geometry of zero. *)
C10_CallsSeeWholeInfo ==
    /\ \A c \in Clients : cpc[c] # "idle" => g_gameCardMutex = c
    /\ Cardinality({c \in Clients : cpc[c] # "idle"}) <= 1
    /\ DetLocked => g_gameCardMutex = DetThread
    /\ \A c \in Clients :
         cpc[c] \in {"query", "read"} =>
            /\ ~DetLocked
            /\ tpc \notin {"x_free", "x_clear"}
            /\ Loaded => InfoComplete

(* A getter runs on a loaded card that is already pulled: the detection thread waits for
   the mutex to tear the info down. *)
C10_Witness ==
    /\ \E c \in Clients : cpc[c] = "query"
    /\ Loaded
    /\ InfoComplete
    /\ ~inserted
    /\ tpc = "h_lock"

(* The shared state of the module: the status, the header, the CardInfo area, the area
   sizes, the capacity, the partition array, the storage handle and session, and the
   current area. *)
sharedVars ==
    <<g_gameCardStatus, g_gameCardHeader, g_gameCardInfoArea, g_gameCardNormalAreaSize,
      g_gameCardSecureAreaSize, g_gameCardTotalSize, g_gameCardCapacity, g_gameCardHfsCount,
      g_gameCardHfsCtx, g_gameCardHandle, g_gameCardStorage, g_gameCardCurrentStorageArea>>

(* The step is made by a client thread: by the one that enters or leaves a call. *)
ClientStep == cpc' # cpc

(* The client making the step holds the mutex when the step is made. *)
ClientWritesLocked == \E c \in Clients : cpc'[c] # cpc[c] /\ g_gameCardMutex' = c

(* gamecardExit holds the mutex and waits for the detection thread. *)
ExitHoldsMutex == \E c \in Clients : cpc[c] = "exit" /\ g_gameCardMutex = c

(* The detection thread runs the gamecardFreeInfo that follows its loop. *)
InExitFree == tpc \in {"x_free", "x_clear"}

(* C11 as the specification states it: whoever writes to the shared state holds the mutex
   itself, the detection thread also in the gamecardFreeInfo it runs after its loop. *)
C11_WriterHoldsMutexItself ==
    [][sharedVars' # sharedVars =>
          IF ClientStep THEN ClientWritesLocked ELSE g_gameCardMutex = DetThread]_vars

(* C11: every write to the shared state (status, header, CardInfo area, area sizes,
   capacity, partition array, storage handle and session, current area) is made while the
   mutex is held: by the writing thread itself in the calls of the clients, in the load at
   the start of the detection thread and in its handling of a detection signal; in the
   gamecardFreeInfo after its loop the detection thread writes without taking the mutex,
   while gamecardExit holds it and waits for the thread to end. *)
C11_WritesUnderMutex ==
    [][sharedVars' # sharedVars =>
          IF ClientStep THEN ClientWritesLocked
          ELSE \/ g_gameCardMutex = DetThread /\ ~InExitFree
               \/ InExitFree /\ ExitHoldsMutex]_vars

(* The detection thread has freed the info of a loaded card after its loop, while
   gamecardExit holds the mutex. *)
C11_Witness ==
    /\ tpc = "x_clear"
    /\ ExitHoldsMutex
    /\ log # <<>> /\ log[Len(log)].step = "free" /\ log[Len(log)].note = "loaded"
    /\ InfoReleased

LoadInfo ==
    \/ LoadBegin \/ LoadHeader \/ LoadDecrypt \/ LoadGate \/ LoadSizes \/ LoadCapacity
    \/ LoadRoot \/ LoadArray \/ LoadChild \/ LoadEnd

DetectionThread ==
    \/ DetLock \/ DetFree \/ DetClear \/ DetCheck \/ DetSignal \/ DetWait \/ LoadInfo

(* The detection thread handles a detection signal: it holds the mutex and has entered
   gamecardFreeInfo. *)
Handling == tpc \in {"h_clear", "h_check"} \/ (DetLocked /\ log # <<>> /\ log[1].step = "free")

(* Position p of the log holds step `step`. *)
LogStepAt(p, step) == Len(log) >= p /\ log[p].step = step

(* The steps of the log from position p on are those of one run of gamecardLoadInfo. *)
LoadRunFrom(p) ==
    /\ Len(log) >= p => log[p].step = "begin"
    /\ \A q \in p..Len(log) : log[q].step \in LoadSteps
    /\ \A q \in (p + 1)..Len(log) : log[q].step # "begin"
    /\ \A q \in p..(Len(log) - 1) : log[q].step # "end"
    /\ tpc = "signal" => LogStepAt(Len(log), "end")

(* C13: the handling of a detection signal is one hold of the mutex in which the thread
   first frees the card state (the status is NotInserted then), then checks the insertion
   once, then, if a card is inserted, waits the settle delay and runs gamecardLoadInfo,
   and last signals the status change event, once; it signals it if no card is inserted
   and if the load failed as well, and a signal that finds the info of a card loaded
   frees it and loads it again. *)
C13_SignalHandling ==
    /\ Handling =>
          /\ g_gameCardMutex = DetThread
          /\ signals = 0
          /\ log # <<>> /\ log[1].step = "free"
          /\ \A q \in 2..Len(log) : log[q].step # "free"
    /\ (tpc = "h_check") =>
          Len(log) = 1 /\ InfoReleased /\ g_gameCardStatus = GameCardStatus_NotInserted
    /\ (Handling /\ Len(log) >= 2) =>
          /\ log[2].step = "check"
          /\ \A q \in 3..Len(log) : log[q].step # "check"
          /\ ~log[2].ok => Len(log) = 2 /\ tpc = "signal"
                           /\ g_gameCardStatus = GameCardStatus_NotInserted
          /\ log[2].ok =>
                /\ LogStepAt(3, "sleep")
                /\ \A q \in 4..Len(log) : log[q].step # "sleep"
                /\ LoadRunFrom(4)
                /\ tpc = "signal" => LoadStepMade("end")
    /\ tpc = "wait" => signals = 1 /\ g_gameCardMutex # DetThread /\ log = <<>>

(* A detection signal found the info of a card loaded: the thread has freed it, found a
   card inserted, loaded it again and is about to signal the event. *)
C13_Witness ==
    /\ Handling
    /\ tpc = "signal"
    /\ log[1].note = "loaded"
    /\ log[2].ok
    /\ Loaded
    /\ signals = 0

(* The detection thread is in the block at its start, past gamecardIsInserted. *)
Starting == DetLocked /\ log # <<>> /\ log[1].step = "check"

(* C14: at its start, before it first waits for the detection and exit events, the thread
   checks the insertion once, runs gamecardLoadInfo if and only if a card is inserted,
   without the settle delay, and then signals the status change event once, also if no
   card is inserted or the load failed. *)
C14_StartUp ==
    /\ tpc = "start" => g_gameCardMutex # DetThread
    /\ tpc = "start_check" => log = <<>> /\ signals = 0 /\ g_gameCardMutex = DetThread
    /\ Starting =>
          /\ g_gameCardMutex = DetThread
          /\ signals = 0
          /\ \A q \in 2..Len(log) : log[q].step \notin {"check", "sleep", "free"}
          /\ ~log[1].ok => Len(log) = 1 /\ tpc = "signal"
          /\ log[1].ok => LoadRunFrom(2) /\ (tpc = "signal" => LoadStepMade("end"))
    /\ (DetLocked /\ ~Handling /\ tpc \notin {"start_check", "h_free"}) => Starting
    /\ tpc = "wait" => signals = 1 /\ g_gameCardStatusChangeEvent /\ log = <<>>

(* The thread has started with a card inserted whose load failed, and is about to signal
   the event. *)
C14_Witness ==
    /\ Starting
    /\ tpc = "signal"
    /\ log[1].ok
    /\ LoadStepMade("end")
    /\ ~Loaded
    /\ signals = 0

(* A client is in a call of gamecardReadStorage that passed the argument check of
   gamecardReadStorageArea. *)
CallMade == (\E c \in Clients : cpc[c] = "read") /\ call.ops # <<>>

CallReads == SelectSeq(call.ops, LAMBDA e : e.kind = "read")
CallOpens == SelectSeq(call.ops, LAMBDA e : e.kind = "open")

(* The logical address space is the normal area followed by the secure area. *)
AreaBase(area) == IF area = GameCardStorageArea_Normal THEN 0 ELSE g_gameCardNormalAreaSize
AreaSize(area) ==
    IF area = GameCardStorageArea_Normal THEN g_gameCardNormalAreaSize
                                         ELSE g_gameCardSecureAreaSize
AreaOf(offset) ==
    IF offset < g_gameCardNormalAreaSize THEN GameCardStorageArea_Normal
                                         ELSE GameCardStorageArea_Secure

(* The reads rs fill the `size` bytes of the caller's buffer from position `from` on, in
   order and without gap or overlap, and the byte at position from + k is the byte of the
   card at the logical offset `offset` + k: the byte a direct read of the area returns at
   that offset. *)
BytesRight(rs, from, offset, size) ==
    /\ rs # <<>>
    /\ rs[1].dst = from
    /\ \A p \in 1..Len(rs) :
         /\ rs[p].rc
         /\ rs[p].len > 0
         /\ rs[p].skip + rs[p].len <= rs[p].size
         /\ rs[p].offset + rs[p].skip + rs[p].len <= AreaSize(rs[p].area)
         /\ AreaBase(rs[p].area) + rs[p].offset + rs[p].skip = offset + (rs[p].dst - from)
         /\ rs[p].dst + rs[p].len = IF p < Len(rs) THEN rs[p + 1].dst ELSE from + size

CallInOneArea ==
    \/ call.offset + call.size <= g_gameCardNormalAreaSize
    \/ call.offset >= g_gameCardNormalAreaSize

CallIsAligned ==
    /\ IS_ALIGNED(call.offset - AreaBase(AreaOf(call.offset)), GAMECARD_PAGE_SIZE)
    /\ IS_ALIGNED(call.size, GAMECARD_PAGE_SIZE)

(* C15: a read of a range that lies within one area makes one transport read, into the
   caller's buffer, if the offset within the area and the length are page aligned;
   otherwise it reads page aligned blocks into g_gameCardReadBuf and copies from there
   (past a block of the size of the read buffer, what is left is read the same way, which
   is into the caller's buffer if what is left is page aligned).  Either way the bytes
   delivered are those at the logical offsets [offset, offset + length) of the card. *)
C15_SingleAreaRead ==
    (CallMade /\ CallInOneArea) =>
        /\ \A p \in 1..Len(call.ops) : call.ops[p].area = AreaOf(call.offset)
        /\ CallOpens # <<>>
        /\ CallOpens[1].rc => CallReads # <<>>
        /\ CallIsAligned =>
              /\ Len(CallReads) <= 1
              /\ \A p \in 1..Len(CallReads) :
                   /\ CallReads[p].direct
                   /\ CallReads[p].offset = call.offset - AreaBase(AreaOf(call.offset))
                   /\ CallReads[p].size = call.size
        /\ (~CallIsAligned /\ CallReads # <<>>) => ~CallReads[1].direct
        /\ \A p \in 1..Len(CallReads) :
              /\ IS_ALIGNED(CallReads[p].offset, GAMECARD_PAGE_SIZE)
              /\ IS_ALIGNED(CallReads[p].size, GAMECARD_PAGE_SIZE)
              /\ CallReads[p].direct => CallReads[p].skip = 0
              /\ ~CallReads[p].direct => CallReads[p].size <= GAMECARD_READ_BUFFER_SIZE
        /\ call.ok => BytesRight(CallReads, 0, call.offset, call.size)

(* A read within the secure area, not page aligned and of more than the read buffer
   holds, has succeeded with two transport reads. *)
C15_Witness ==
    /\ CallMade
    /\ CallInOneArea
    /\ ~CallIsAligned
    /\ call.ok
    /\ Len(CallReads) = 2
    /\ CallReads[1].skip > 0

CallStraddles ==
    /\ call.offset < g_gameCardNormalAreaSize
    /\ call.offset + call.size > g_gameCardNormalAreaSize

NormalReads == SelectSeq(CallReads, LAMBDA e : e.area = GameCardStorageArea_Normal)
SecureReads == SelectSeq(CallReads, LAMBDA e : e.area = GameCardStorageArea_Secure)

(* C16: a read of a range that begins in the normal area and ends in the secure area
   delivers what a read of [offset, normalAreaSize) delivers, followed, from position
   normalAreaSize - offset of the caller's buffer on, by what a read of
   [normalAreaSize, offset + length) delivers; the normal area is read first. *)
C16_StraddlingRead ==
    (CallMade /\ CallStraddles) =>
        /\ CallReads = NormalReads \o SecureReads
        /\ SecureReads # <<>> => BytesRight(NormalReads, 0, call.offset,
                                            g_gameCardNormalAreaSize - call.offset)
        /\ call.ok =>
              /\ BytesRight(NormalReads, 0, call.offset, g_gameCardNormalAreaSize - call.offset)
              /\ BytesRight(SecureReads, g_gameCardNormalAreaSize - call.offset,
                            g_gameCardNormalAreaSize,
                            call.size - (g_gameCardNormalAreaSize - call.offset))
              /\ SecureReads[1].offset + SecureReads[1].skip = 0

(* A read across the end of the normal area, page aligned at neither end, has succeeded. *)
C16_Witness ==
    /\ CallMade
    /\ CallStraddles
    /\ call.ok
    /\ ~IS_ALIGNED(call.offset, GAMECARD_PAGE_SIZE)
    /\ NormalReads # <<>> /\ SecureReads # <<>>
    /\ SecureReads[1].dst = g_gameCardNormalAreaSize - call.offset

(* The arguments of the call pass the check of gamecardReadStorageArea. *)
CallValid ==
    /\ call.out
    /\ g_gameCardStatus >= GameCardStatus_InsertedAndInfoNotLoaded
    /\ g_gameCardNormalAreaSize # 0 /\ g_gameCardSecureAreaSize # 0
    /\ call.size # 0
    /\ call.offset + call.size <= g_gameCardTotalSize

(* C17: a call of gamecardReadStorageArea returns success only if every area it needed was
   opened and every transport read it made succeeded, and then the whole range is
   delivered; a failed open or read, in the page aligned read, in a block read through
   the read buffer or in either part of a read across the two areas, is the last thing
   the call does, and the call returns failure. *)
C17_ReadFailure ==
    (\E c \in Clients : cpc[c] = "read") =>
        /\ call.ops # <<>> <=> CallValid
        /\ \A p \in 1..(Len(call.ops) - 1) : call.ops[p].rc
        /\ (\E p \in 1..Len(call.ops) : ~call.ops[p].rc) => ~call.ok
        /\ call.ok =>
              /\ CallValid
              /\ \A p \in 1..Len(call.ops) : call.ops[p].rc
              /\ BytesRight(CallReads, 0, call.offset, call.size)
        /\ (~call.ok /\ call.ops # <<>>) => ~call.ops[Len(call.ops)].rc

(* A read across the two areas has failed in the secure area, after the part in the normal
   area was read. *)
C17_Witness ==
    /\ CallMade
    /\ CallStraddles
    /\ ~call.ok
    /\ NormalReads # <<>> /\ NormalReads[Len(NormalReads)].rc
    /\ ~call.ops[Len(call.ops)].rc
    /\ call.ops[Len(call.ops)].area = GameCardStorageArea_Secure

(* One GiB, in the unit of the capacity table of the model. *)
GiB == (2 ^ 30) \div (2 ^ 10)

(* The capacity, in GiB, of each code that is defined. *)
CapacityTable ==
    {<<GameCardRomSize_1GiB, 1>>, <<GameCardRomSize_2GiB, 2>>, <<GameCardRomSize_4GiB, 4>>,
     <<GameCardRomSize_8GiB, 8>>, <<GameCardRomSize_16GiB, 16>>, <<GameCardRomSize_32GiB, 32>>}

(* The capacity of a code by the table: 0 for a code that is not in it. *)
TableCapacity(code) ==
    IF \E e \in CapacityTable : e[1] = code
    THEN (CHOOSE e \in CapacityTable : e[1] = code)[2] * GiB
    ELSE 0

(* The lookup agrees with the table on every value of the rom_size byte. *)
LookupIsTable ==
    \A code \in 0..255 : gamecardGetCapacityFromRomSizeValue(code) = TableCapacity(code)

(* C18: gamecardGetCapacityFromRomSizeValue maps each of the six codes defined to its
   capacity of 1, 2, 4, 8, 16 or 32 GiB and every other value of the byte to 0, and the
   capacity gamecardLoadInfo stores is that of the code in the header; if it is 0 the load
   makes no further step and ends with a status other than InsertedAndInfoLoaded. *)
C18_CapacityLookup ==
    /\ LookupIsTable
    /\ (LoadStepMade("capacity") /\ ~LoadStepMade("end")) =>
          /\ g_gameCardCapacity = TableCapacity(g_gameCardHeader.rom_size)
          /\ LoadStepFailed("capacity") <=> g_gameCardCapacity = 0
          /\ LoadStepFailed("capacity") =>
                /\ tpc = "load_end"
                /\ LoadLog[Len(LoadLog)].step = "capacity"
                /\ g_gameCardStatus = GameCardStatus_InsertedAndInfoNotLoaded
                /\ root_fs_ctx = NULL /\ g_gameCardHfsCtx = NULL
    /\ (LoadReturned /\ LoadStepFailed("capacity")) =>
          /\ LoadLog[Len(LoadLog) - 1].step = "capacity"
          /\ g_gameCardStatus = GameCardStatus_InsertedAndInfoNotLoaded
          /\ g_gameCardCapacity = 0
    /\ Loaded /\ ~InFreeInfo => g_gameCardCapacity \in {e[2] * GiB : e \in CapacityTable}

(* The header of the card holds a code that is not defined: the capacity is 0 and
   gamecardLoadInfo is at its end. *)
C18_Witness ==
    /\ tpc = "load_end"
    /\ LoadStepFailed("capacity")
    /\ g_gameCardHeader.rom_size = 255
    /\ g_gameCardCapacity = 0

(* C19: whenever the geometry is known, and so whenever the status is
   InsertedAndInfoLoaded, the total size is the sum of the sizes of the normal and of the
   secure area, also if gamecardLoadInfo has computed the size of the secure area itself
   because the custom firmware is SX OS. *)
C19_TotalIsSum ==
    (g_gameCardTotalSize # 0 \/ (Loaded /\ ~InFreeInfo)) =>
        g_gameCardTotalSize = g_gameCardNormalAreaSize + g_gameCardSecureAreaSize

(* What is kept of node j of the tree. *)
TreeNode(ctx) ==
    [name |-> ctx.name, type |-> ctx.type, offset |-> ctx.offset, size |-> ctx.size,
     header_size |-> ctx.header_size, entry_count |-> ctx.header.entry_count]

(* The tree in g_gameCardHfsCtx. *)
LoadedTree == [j \in 1..g_gameCardHfsCount |-> TreeNode(g_gameCardHfsCtx[j])]

(* The size of a Hash FS header of n entries and a name table of nts bytes, in whole pages. *)
PagedHeaderSize(n, nts) ==
    GAMECARD_PAGE_SIZE
        * ((HFS_HEADER_SIZE + (n * HFS_ENTRY_SIZE) + nts + GAMECARD_PAGE_SIZE - 1)
           \div GAMECARD_PAGE_SIZE)

(* The tree the content of card c describes: the root partition at the address its header
   gives, and one partition per entry of the root table, in the order of the table, with
   the name, the offset (counted from the end of the root header) and the size of the
   entry. *)
CardTree(c) ==
    [j \in 1..(c.n + 1) |->
        IF j = 1
        THEN [name |-> "root", type |-> GameCardHashFileSystemPartitionType_Root,
              offset |-> CardHeader(c).partition_fs_header_address,
              size |-> PagedHeaderSize(c.n, NAME_TABLE_SIZE) + CardRootEntry(c, c.n).offset
                       + CardRootEntry(c, c.n).size,
              header_size |-> PagedHeaderSize(c.n, NAME_TABLE_SIZE), entry_count |-> c.n]
        ELSE [name |-> CardRootEntry(c, j - 1).name,
              type |-> CHOOSE t \in 1..(GameCardHashFileSystemPartitionType_Count - 1) :
                          g_gameCardHfsPartitionNames[t + 1] = CardRootEntry(c, j - 1).name,
              offset |-> CardHeader(c).partition_fs_header_address
                         + PagedHeaderSize(c.n, NAME_TABLE_SIZE) + CardRootEntry(c, j - 1).offset,
              size |-> CardRootEntry(c, j - 1).size,
              header_size |-> PagedHeaderSize(CardChildHeader(c, j - 1).entry_count,
                                              CardChildHeader(c, j - 1).name_table_size),
              entry_count |-> CardChildHeader(c, j - 1).entry_count]]

(* C20: the tree a load builds is the tree the content of the card describes, node for
   node: the number of nodes, their names, types, offsets, sizes and header sizes.  It is
   so whatever was loaded before, and so the load of a card whose info was loaded before
   (after a detection signal with the card still in the slot, or after the card was
   pulled and pushed back) builds the same tree again. *)
C20_ParseIsIdempotent ==
    (Loaded /\ ~InFreeInfo /\ card # NoCard) =>
        /\ g_gameCardHfsCount = card.n + 1
        /\ LoadedTree = CardTree(card)

(* The info of a card with MaxChildren partitions was loaded; a detection signal found
   the same card in the slot, and the detection thread has freed the info and loaded it
   again. *)
C20_Witness ==
    /\ Handling
    /\ tpc = "signal"
    /\ log[1].note = "loaded"
    /\ log[2].note = "same"
    /\ Loaded
    /\ card.n = MaxChildren
    /\ LoadedTree = CardTree(card)

(* The children of the loaded tree that carry the name of partition type t, by their
   place in the table (1 is the first child). *)
ChildrenNamed(t) ==
    {j \in 1..(g_gameCardHfsCount - 1) :
        g_gameCardHfsCtx[j + 1].name = g_gameCardHfsPartitionNames[t + 1]}

(* What the lookup for partition type t has to return in the current state. *)
LookupExpected(t) ==
    IF ~Loaded THEN -1
    ELSE IF t = GameCardHashFileSystemPartitionType_Root THEN 0
    ELSE IF ChildrenNamed(t) = {} THEN -1
    ELSE CHOOSE j \in ChildrenNamed(t) : \A k \in ChildrenNamed(t) : j <= k

(* A client enters or leaves the SCOPED_LOCK block of a getter. *)
QueryStep == \E c \in Clients : (cpc[c] = "query") # (cpc'[c] = "query")

(* C21: while the status is InsertedAndInfoLoaded the lookup for the root type returns
   node 0 of the tree, and the lookup for any other type returns the first child, in the
   order of the table, whose name is the name of that type, and no node if no child has
   that name; while the status is any other, the lookup returns no node for every type;
   and a lookup leaves the tree as it is.  The lookups are those of a getter, made in
   its SCOPED_LOCK block. *)
C21_PartitionLookup ==
    /\ []((\E c \in Clients : cpc[c] = "query") =>
             \A t \in 0..(GameCardHashFileSystemPartitionType_Count - 1) :
                 gamecardGetHashFileSystemContextIndex(t) = LookupExpected(t))
    /\ [][QueryStep => UNCHANGED hfsVars]_vars

(* A client is in a getter with the info of a card loaded whose two partitions have the
   same name: the lookup for that name gives the first of them, the lookup for the root
   gives node 0, and the lookup for the name the second partition has on other cards gives
   no node. *)
C21_Witness ==
    /\ \E c \in Clients : cpc[c] = "query"
    /\ Loaded
    /\ g_gameCardHfsCount = 3
    /\ g_gameCardHfsCtx[2].name = g_gameCardHfsCtx[3].name
    /\ gamecardGetHashFileSystemContextIndex(HfsPartitionType(g_gameCardHfsCtx[3].name)) = 1
    /\ gamecardGetHashFileSystemContextIndex(GameCardHashFileSystemPartitionType_Root) = 0
    /\ gamecardGetHashFileSystemContextIndex(HfsPartitionType(ChildNames[2])) = -1

(* The step is the entry of a client into gamecardReadStorage or gamecardGetKeyArea. *)
ReadEntered == \E c \in Clients : cpc[c] = "idle" /\ cpc'[c] \in {"read", "keyarea"}

(* C22 as the specification states it: no step of a client, in a getter, a lookup,
   gamecardReadStorage or gamecardGetKeyArea, changes the status, the header, the area
   sizes, the partition array, the storage handle and session or the current area. *)
C22_ClientsChangeNothing == [][ClientStep => UNCHANGED sharedVars]_vars

(* C22: no call of a client changes the status, the header, the CardInfo area, the area
   sizes, the capacity or the partition array, whether it succeeds or fails; the storage
   handle, the storage session and the current area are changed by gamecardReadStorage and
   gamecardGetKeyArea, which open the area they read after closing the one that is open,
   and by no other call of a client. *)
C22_ClientsChangeOnlyOpenArea ==
    [][ClientStep =>
          /\ UNCHANGED <<g_gameCardStatus, infoVars, hfsVars>>
          /\ ReadEntered \/ UNCHANGED <<g_gameCardHandle, g_gameCardStorage,
                                         g_gameCardCurrentStorageArea>>]_vars

(* gamecardGetKeyArea was called with the normal area open: it has opened the secure
   area, and the info of the card is as it was loaded. *)
C22_Witness ==
    /\ \E c \in Clients : cpc[c] = "keyarea"
    /\ Loaded
    /\ g_gameCardCurrentStorageArea = GameCardStorageArea_Secure
    /\ g_gameCardHandle /\ g_gameCardStorage
    /\ card # NoCard /\ LoadedTree = CardTree(card)

(* The last call on the device was an open() with one of the flags that ask for more
   than reading. *)
OpenForWriting ==
    /\ hfsdev.op.name = "open"
    /\ hfsdev.op.flags \cap {"O_WRONLY", "O_RDWR", "O_APPEND", "O_CREAT", "O_TRUNC", "O_EXCL"} # {}

(* The calls that change a file system. *)
MutatingCalls ==
    { "write_r", "link_r", "unlink_r", "rename_r", "mkdir_r", "rmdir_r", "ftruncate_r",
      "fsync_r", "chmod_r", "fchmod_r", "utimes_r", "symlink_r" }

(* C23: every call on a mounted partition that would change it is rejected.  hfsdev_open
   with flags that hold O_WRONLY, O_RDWR, O_APPEND, O_CREAT, O_TRUNC or O_EXCL fails with
   EINVAL and leaves the file state as it was, neither reset nor filled; and write, link,
   unlink, rename, mkdir, rmdir, ftruncate, fsync, chmod, fchmod, utimes and symlink are
   bound to handlers of ro_dev.h, which fail and change neither the file state nor the
   partition. *)
C23_ReadOnlyDevice ==
    /\ [](\A f \in MutatingCalls : hfsdev_devoptab[f] \in RoDevHandlers)
    /\ [](OpenForWriting => (hfsdev.ret = -1 /\ hfsdev.errno = "EINVAL"))
    /\ [][(hfsdev'.op.name = "open" /\ hfsdev'.op.flags \cap {"O_WRONLY", "O_RDWR", "O_APPEND", "O_CREAT", "O_TRUNC", "O_EXCL"} # {})
              => (hfsdev'.file = hfsdev.file /\ hfsdev'.fs_ctx = hfsdev.fs_ctx)]_hfsdev
    /\ [][hfsdev'.op.name \in MutatingCalls
              => (hfsdev'.ret = -1 /\ hfsdev'.errno # NO_ERROR /\ hfsdev'.file = hfsdev.file
                  /\ hfsdev'.fs_ctx = hfsdev.fs_ctx)]_hfsdev

(* The file of the first entry is open, and an open() of it with O_EXCL alone has failed
   with EINVAL: the file state is that of the open file. *)
C23_Witness ==
    /\ hfsdev.mounted
    /\ hfsdev.op.name = "open"
    /\ hfsdev.op.flags = {"O_EXCL"}
    /\ hfsdev.errno = "EINVAL" /\ hfsdev.ret = -1
    /\ hfsdev.file.hfs_entry # NULL
    /\ hfsdev.file.name = <<"a">>

(* The number of the first try of `tries` that succeeds, HANDLE_TRIES + 1 if none does. *)
FirstOk(tries) ==
    IF \E a \in 1..HANDLE_TRIES : tries[a] = "ok"
    THEN CHOOSE a \in 1..HANDLE_TRIES : tries[a] = "ok" /\ \A b \in 1..(a - 1) : tries[b] # "ok"
    ELSE HANDLE_TRIES + 1

(* The tries made so far by the loop. *)
TriesMade == EventCount(loop.ev, {"handle", "handle_fail"})

(* C24: gamecardGetHandleAndStorage makes at most ten tries, each the acquisition of a
   handle and then the opening of the session; it sleeps before a try only if the try
   before it failed, so never before the first and at most nine times; it stops at the
   first try in which both calls succeed, and it ends; it returns success if and only if
   its last try succeeded; and when it returns failure no handle is open, the handle of a
   try whose session could not be opened having been closed before the next try. *)
C24_BoundedRetries ==
    /\ loop.i <= HANDLE_TRIES
    /\ TriesMade = (IF loop.brk THEN loop.i + 1 ELSE loop.i)
    /\ TriesMade <= HANDLE_TRIES
    /\ EventCount(loop.ev, {"sleep"}) = (IF TriesMade = 0 THEN 0 ELSE TriesMade - 1)
    /\ loop.ev # <<>> => loop.ev[1] # "sleep"
    /\ \A p \in 2..Len(loop.ev) :
          /\ loop.ev[p] = "sleep" <=> loop.ev[p - 1] \in {"handle_fail", "close"}
          /\ loop.ev[p] \in {"handle", "handle_fail"} => loop.ev[p - 1] = "sleep"
          /\ loop.ev[p - 1] = "storage_fail" <=> loop.ev[p] = "close"
          /\ loop.ev[p - 1] # "storage"
    /\ ~LoopDone(loop) =>
          /\ ENABLED RetryTry
          /\ \A a \in 1..loop.i : loop.tries[a] # "ok"
          /\ ~loop.handle /\ ~loop.storage
    /\ LoopDone(loop) =>
          /\ TriesMade = (IF FirstOk(loop.tries) <= HANDLE_TRIES THEN FirstOk(loop.tries)
                                                                 ELSE HANDLE_TRIES)
          /\ loop.rc <=> FirstOk(loop.tries) <= HANDLE_TRIES
          /\ loop.rc <=> loop.ev[Len(loop.ev)] = "storage"
          /\ loop.rc => loop.handle /\ loop.storage
          /\ ~loop.rc => ~loop.handle /\ ~loop.storage

(* The loop has ended after ten tries that failed, some at the handle and some at the
   session: nine sleeps were made, every handle obtained was closed, and none is open. *)
C24_Witness ==
    /\ LoopDone(loop)
    /\ ~loop.rc
    /\ TriesMade = HANDLE_TRIES
    /\ EventCount(loop.ev, {"sleep"}) = HANDLE_TRIES - 1
    /\ EventCount(loop.ev, {"close"}) = 4
    /\ EventCount(loop.ev, {"handle_fail"}) = 6
    /\ ~loop.handle

(* The detection thread is at a step of gamecardLoadInfo that opens a storage area. *)
LoadOpens == tpc \in {"load_header", "load_sizes", "load_root", "load_child"}

(* The step is one of gamecardLoadInfo in which gamecardGetHandleAndStorage used up its
   tries for the area noted. *)
StepDenied(note) == LoadOpens /\ log' # log /\ log'[Len(log')].note = note

(* A client's read in which an area could not be opened. *)
ReadDenied ==
    \E c \in Clients :
       /\ cpc[c] # "read" /\ cpc'[c] = "read"
       /\ \E p \in 1..Len(call'.ops) :
             call'.ops[p].kind = "open" /\ ~call'.ops[p].rc

(* C25: the status becomes NoGameCardPatchEnabled exactly in the steps in which the
   handle and the session of the normal area could not be had in ten tries while the
   status is InsertedAndInfoNotLoaded, which are steps of gamecardLoadInfo; the tries used
   up for the secure area, or in a read or a key area query of a client, leave the status
   as it is. *)
C25_AccessRestricted ==
    [][/\ (g_gameCardStatus' = GameCardStatus_NoGameCardPatchEnabled
           /\ g_gameCardStatus # GameCardStatus_NoGameCardPatchEnabled)
          <=> (StepDenied("normal")
               /\ g_gameCardStatus = GameCardStatus_InsertedAndInfoNotLoaded)
       /\ StepDenied("normal") => g_gameCardStatus = GameCardStatus_InsertedAndInfoNotLoaded
       /\ StepDenied("secure") => UNCHANGED g_gameCardStatus
       /\ ClientStep => UNCHANGED g_gameCardStatus
       /\ ReadDenied => g_gameCardStatus = GameCardStatus_InsertedAndInfoLoaded]_vars

(* The root partition could not be read because the normal area, closed after the sizes
   were taken, could not be opened again: the status is NoGameCardPatchEnabled. *)
C25_Witness ==
    /\ g_gameCardStatus = GameCardStatus_NoGameCardPatchEnabled
    /\ tpc = "load_end"
    /\ log[Len(log)].step = "root"
    /\ log[Len(log)].note = "normal"
    /\ ~g_gameCardHandle

(* A call of gamecardOpenStorageArea can be made in this state: by gamecardLoadInfo, or by
   a client that takes the mutex while the status lets its call through. *)
OpenCallable ==
    \/ LoadOpens
    \/ /\ MutexFree
       /\ \E c \in Clients : cpc[c] = "idle"
       /\ g_gameCardInterfaceInit
       /\ g_gameCardStatus >= GameCardStatus_InsertedAndInfoNotLoaded

(* r is what gamecardOpenStorageArea(area) returns when called with transport state x. *)
OpenAsClaimed(x, area, o, r) ==
    /\ (x.handle /\ x.storage /\ x.area = area) => (r.ok /\ r.x = x /\ r.o = o /\ r.ev = <<>>)
    /\ r.ok => (r.x.area = area /\ r.x.handle /\ r.x.storage)
    /\ ~r.ok => (r.x.area = GameCardStorageArea_None /\ ~r.x.handle /\ ~r.x.storage)
    /\ (x.area # GameCardStorageArea_None /\ x.area # area) =>
          /\ r.ev # <<>>
          /\ r.ok => r.x.live
          /\ ~r.ok => ~r.x.live

(* C26: between operations at most one storage area is open:
   g_gameCardCurrentStorageArea is None, Normal or Secure, and it is not None if and only
   if the storage session and the gamecard handle are open.  Opening the area that is
   open changes nothing; opening the other area closes the session and the handle first;
   an open that fails leaves no area current, no session and no handle. *)
C26_OneAreaOpen ==
    /\ g_gameCardCurrentStorageArea \in
          {GameCardStorageArea_None, GameCardStorageArea_Normal, GameCardStorageArea_Secure}
    /\ g_gameCardCurrentStorageArea # GameCardStorageArea_None
          <=> (g_gameCardStorage /\ g_gameCardHandle)
    /\ OpenCallable =>
          \A area \in {GameCardStorageArea_Normal, GameCardStorageArea_Secure},
             o \in Oracles(1, 0, FALSE) :
                OpenAsClaimed(X, area, o, gamecardOpenStorageArea(X, area, o))

(* A read across the end of the normal area has read its first part from the normal area
   and then could not open the secure area: the session and the handle of the normal
   area are closed and no area is current. *)
C26_Witness ==
    /\ \E c \in Clients : cpc[c] = "read"
    /\ Len(call.ops) = 3
    /\ call.ops[1].kind = "open" /\ call.ops[1].area = GameCardStorageArea_Normal
    /\ call.ops[1].rc
    /\ call.ops[2].kind = "read" /\ call.ops[2].rc
    /\ call.ops[3].kind = "open" /\ call.ops[3].area = GameCardStorageArea_Secure
    /\ ~call.ops[3].rc
    /\ g_gameCardCurrentStorageArea = GameCardStorageArea_None
    /\ ~g_gameCardHandle /\ ~g_gameCardStorage

(* A client is in gamecardReadStorage, gamecardReadStorageArea having returned or
   faulted. *)
Reading == \E c \in Clients : cpc[c] = "read"

(* The sum of the arguments of the call is not a u64. *)
CallWraps == call.offset + call.size >= U64Mod

(* Every storage read of the call is of whole pages at a page boundary of one area, lies
   within that area, and follows the successful gamecardOpenStorageArea of that area. *)
ReadsInOpenArea ==
    /\ \A p \in 1..Len(call.ops) :
          call.ops[p].kind = "read" =>
             /\ IS_ALIGNED(call.ops[p].offset, GAMECARD_PAGE_SIZE)
             /\ IS_ALIGNED(call.ops[p].size, GAMECARD_PAGE_SIZE)
             /\ call.ops[p].offset + call.ops[p].size <= AreaSize(call.ops[p].area)
             /\ p > 1
             /\ call.ops[p - 1].kind = "open" /\ call.ops[p - 1].rc
             /\ call.ops[p - 1].area = call.ops[p].area
    /\ (call.ops # <<>> /\ call.ops[Len(call.ops)].kind = "read") =>
          /\ g_gameCardCurrentStorageArea = call.ops[Len(call.ops)].area
          /\ g_gameCardHandle /\ g_gameCardStorage

(* C27: every storage read gamecardReadStorageArea issues, for any offset and length it
   accepts, is at a page aligned offset of an area and of a page aligned length, covers
   bytes of that area only, and is issued while that area is the open one. *)
C27_ReadsAlignedInOpenArea == Reading => ReadsInOpenArea

(* The same of the calls whose offset + read_size is a u64. *)
C27_UnlessWrapped == (Reading /\ ~CallWraps) => ReadsInOpenArea

(* Every read into g_gameCardReadBuf is of at most GAMECARD_READ_BUFFER_SIZE bytes, and
   what is copied from there after a read that succeeded lies within the bytes just read
   and is no more than what is left of the caller's buffer. *)
ScratchReadsBounded ==
    \A p \in 1..Len(call.ops) :
       (call.ops[p].kind = "read" /\ ~call.ops[p].direct) =>
          /\ call.ops[p].size <= GAMECARD_READ_BUFFER_SIZE
          /\ call.ops[p].rc =>
                /\ call.ops[p].skip + call.ops[p].len <= call.ops[p].size
                /\ call.ops[p].len <= call.size - call.ops[p].dst

(* C28: in the path of gamecardReadStorageArea for reads that are not page aligned, every
   read into the read buffer is of at most GAMECARD_READ_BUFFER_SIZE bytes, the range
   [data_start_offset, data_start_offset + out_chunk_size) copied lies within the bytes
   just read, and out_chunk_size is at most what is left of the caller's buffer. *)
C28_ScratchReadsBounded == Reading => ScratchReadsBounded

(* The same of the calls whose offset + read_size is a u64. *)
C28_UnlessWrapped == (Reading /\ ~CallWraps) => ScratchReadsBounded

(* The call has returned; every call of gamecardReadStorageArea within it had a length
   other than 0, smaller than that of the call that made it; there are no more calls
   than the length has read buffers, and two; and if the call succeeded the reads fill the
   caller's buffer from its start to its end, each where the one before it ends. *)
CallTerminates ==
    /\ \A p \in 1..Len(call.ops) : call.ops[p].kind # "fault"
    /\ \A p \in 1..Len(CallOpens) :
          /\ CallOpens[p].size > 0
          /\ CallOpens[p].size <= call.size
          /\ p > 1 => CallOpens[p].size < (IF CallOpens[p].area = CallOpens[p - 1].area
                                           THEN CallOpens[p - 1].size ELSE call.size)
          /\ (p = 1 /\ CallStraddles /\ ~CallWraps) => CallOpens[p].size < call.size
    /\ Len(CallOpens) <= (call.size \div GAMECARD_READ_BUFFER_SIZE) + 2
    /\ call.ok =>
          /\ CallReads # <<>>
          /\ CallReads[1].dst = 0
          /\ \A p \in 1..Len(CallReads) :
                /\ CallReads[p].len > 0
                /\ CallReads[p].dst + CallReads[p].len =
                      IF p < Len(CallReads) THEN CallReads[p + 1].dst ELSE call.size

(* C29: gamecardReadStorageArea terminates for every request it accepts: each call it
   makes of itself, for the part in the normal area or for what is left after a block of
   the size of the read buffer, has a length other than 0 and smaller than its own; the
   depth of the calls is at most the length divided by the size of the read buffer, and
   a constant; and on success the bytes written to the caller's buffer are as many as
   were asked for, without gap or overlap between the chunks. *)
C29_ReadTerminates == Reading => CallTerminates

(* The same of the calls whose offset + read_size is a u64. *)
C29_UnlessWrapped == (Reading /\ ~CallWraps) => CallTerminates

(* The arguments of the call or the state are among those the claim has rejected. *)
CallRejectable ==
    \/ g_gameCardStatus < GameCardStatus_InsertedAndInfoNotLoaded
    \/ g_gameCardNormalAreaSize = 0
    \/ g_gameCardSecureAreaSize = 0
    \/ ~call.out
    \/ call.size = 0
    \/ call.offset + call.size > g_gameCardTotalSize

(* The call has failed without a call of gamecardOpenStorageArea or of fsStorageRead. *)
CallRejected == ~call.ok /\ call.ops = <<>>

(* C30: gamecardReadStorageArea returns failure, without opening an area or reading from
   the storage, whenever the status is below InsertedAndInfoNotLoaded, the size of either
   area is 0, the output buffer is null, the length is 0, or offset + length is more than
   the total size, the last for all u64 values of the offset and of the length, those
   whose sum is not a u64 included. *)
C30_ArgumentCheck == (Reading /\ CallRejectable) => CallRejected

(* The same of the calls whose offset + read_size is a u64, and the calls that are not to
   be rejected are not. *)
C30_UnlessWrapped ==
    /\ (Reading /\ ~CallWraps) => (CallRejectable <=> CallRejected)
    /\ (Reading /\ ~CallRejectable) => ~CallRejected

(* gamecardLoadInfo is at, or past, the parsing of the partitions (lines 702-743) of a
   run of its own, or has loaded the card. *)
PastCapacity ==
    tpc \in {"load_root", "load_array", "load_child"} \/ (Loaded /\ ~InFreeInfo)

(* Line 699 without the arithmetic of u64: the size of the secure area is what is left of
   the capacity. *)
SecureAreaRecomputed ==
    /\ g_gameCardNormalAreaSize + GAMECARD_UNUSED_AREA_SIZE(g_gameCardCapacity)
           <= g_gameCardCapacity
    /\ g_gameCardSecureAreaSize =
           g_gameCardCapacity - (g_gameCardNormalAreaSize
                                 + GAMECARD_UNUSED_AREA_SIZE(g_gameCardCapacity))

(* The size the transport reports for the secure area of the card in the slot. *)
TransportSecureSize == CardSecureSize(card)

(* The total size, the one quantity computed from the size the transport reports for the
   secure area (line 1105), has been computed from the recomputed size instead. *)
TransportSecureSizeUnused ==
    g_gameCardTotalSize = g_gameCardNormalAreaSize + g_gameCardSecureAreaSize

(* C31: with SX OS as the custom firmware, from the parsing of the partitions on, the
   size of the secure area is capacity - (normal area size + (capacity / page size) *
   0x24), a subtraction that does not wrap, and nothing holds the size the transport
   reported for the secure area any more: the total size, which the partition parsing and
   the reads check offsets against, is the sum of the normal and of the recomputed size. *)
C31_SecureAreaRecomputed ==
    (sxos /\ PastCapacity) => (SecureAreaRecomputed /\ TransportSecureSizeUnused)

(* The part of C31 on the size of the secure area itself. *)
C31_SecureAreaSize == (sxos /\ PastCapacity) => SecureAreaRecomputed

(* Under SX OS the total size is still the sum with the size the transport has reported. *)
C31_TotalFromTransport ==
    (sxos /\ PastCapacity /\ card # NoCard) =>
        g_gameCardTotalSize = g_gameCardNormalAreaSize + TransportSecureSize

(* The call of gamecardInitializeHashFileSystemContext has got to line 1231: the full
   header has been read. *)
HashCheckReached == parse.done /\ parse.r.at \in {"", "hash", "fault"}

(* The window of the hash lies within the header_size bytes of the header. *)
WindowInHeader ==
    parse.args.window[1] + parse.args.window[2] <= HfsHeaderSize(parse.args.hdr)

(* hash_target_offset + hash_target_size is no u64. *)
WindowWraps == parse.args.window[1] + parse.args.window[2] >= U64Mod

(* What the claim says of a call that has got to line 1231. *)
HashCheckAsClaimed ==
    /\ parse.r.verified <=>
           (parse.args.hash # NULL_HASH /\ parse.args.window[2] # 0 /\ WindowInHeader)
    /\ (parse.r.verified /\ parse.args.hdr.digest # parse.args.hash) =>
           (parse.r.ctx = NULL /\ parse.r.at = "hash" /\ parse.r.held = {})
    /\ ~WindowInHeader => (parse.r.ctx # NULL /\ ~parse.r.verified)

(* C32: in gamecardInitializeHashFileSystemContext the SHA-256 of the header is computed
   and compared exactly when a hash is supplied, the size of the window is not 0 and
   hash_target_offset + hash_target_size <= header_size; a digest that differs from the
   hash makes the call fail with everything it allocated freed; and a window that does not
   fit inside the header bytes gets the node accepted without any verification. *)
C32_HashCheck == HashCheckReached => HashCheckAsClaimed

(* The same of the windows whose offset + size is a u64. *)
C32_UnlessWrapped == (HashCheckReached /\ ~WindowWraps) => HashCheckAsClaimed

(* The names of g_gameCardHfsPartitionNames. *)
PartitionNames ==
    {g_gameCardHfsPartitionNames[t] : t \in 1..GameCardHashFileSystemPartitionType_Count}

(* Entry e of a root partition with a name table of nts bytes has a name the claim calls
   bad: outside the name table, empty, or none of the partition names. *)
BadRootEntry(e, nts) == e.name_offset >= nts \/ e.name = "" \/ e.name \notin PartitionNames

(* The run of gamecardLoadInfo in the log has failed at the name of a root entry. *)
LoadFailedAtName == LoadStepNoted("child", "name") \/ LoadStepNoted("child", "type")

(* C33: a root entry with a name offset >= the name table size, with an empty name or
   with a name that is none of root, update, logo, normal, secure, boot makes the load
   fail.  The loop over the root entries does not get past such an entry, no card with
   one is ever loaded, and when gamecardLoadInfo has returned after meeting one the status
   is not InsertedAndInfoLoaded and the root and the children parsed before are freed. *)
C33_BadNameFailsLoad ==
    /\ (tpc = "load_child" /\ root_fs_ctx # NULL) =>
           \A j \in 1..i : ~BadRootEntry(root_fs_ctx.header.entries[j],
                                         root_fs_ctx.header.name_table_size)
    /\ (Loaded /\ ~InFreeInfo) =>
           \A j \in 1..g_gameCardHfsCtx[1].header.entry_count :
               ~BadRootEntry(g_gameCardHfsCtx[1].header.entries[j],
                             g_gameCardHfsCtx[1].header.name_table_size)
    /\ (tpc = "load_end" /\ LoadFailedAtName) => ~Loaded
    /\ (LoadReturned /\ LoadFailedAtName) =>
           /\ ~Loaded
           /\ g_gameCardHfsCtx = NULL /\ g_gameCardHfsCount = 0
           /\ heap = {} /\ ~badFree

(* gamecardLoadInfo has returned after the second root entry had a name that is no
   partition name: the first child had been parsed, and everything is freed. *)
C33_Witness ==
    /\ LoadReturned
    /\ LoadStepNoted("child", "type")
    /\ \E p \in 1..Len(LoadLog) : LoadLog[p].step = "child" /\ LoadLog[p].ok
    /\ g_gameCardStatus = GameCardStatus_InsertedAndInfoNotLoaded
    /\ g_gameCardHfsCtx = NULL /\ heap = {}

(* The last step of the run of gamecardLoadInfo under way was a call of
   gamecardInitializeHashFileSystemContext that got to the check of line 1204. *)
LastStep == LoadLog[Len(LoadLog)]
CountsChecked ==
    /\ tpc \in {"load_array", "load_child", "load_end"}
    /\ LoadLog # <<>>
    /\ LastStep.step \in {"root", "child"}
    /\ (LastStep.ok \/ LastStep.note \in {"counts", "header_alloc", "full", "mismatch"})

(* The header that call has read: that of the root, or that of the child it was made for. *)
LastHeader ==
    IF LastStep.step = "root" THEN CardHfsHeader(card, 0)
    ELSE CardHfsHeader(card, IF LastStep.ok THEN i ELSE i + 1)

(* The node the call was to make is not there. *)
LastNodeFreed ==
    IF LastStep.step = "root" THEN root_fs_ctx = NULL /\ 0 \notin heap
    ELSE g_gameCardHfsCtx[i + 2] = NULL /\ (i + 1) \notin heap

(* C34: the partition parsing rejects a header for its entry count or the size of its
   name table exactly if the entry count is 0 and the node is the root, or the size of the
   name table is 0, whatever the node; so a header of a child with entry count 0 and a
   name table is not rejected.  A rejection leaves no node, gamecardLoadInfo goes to its
   end without the status InsertedAndInfoLoaded, and when it has returned nothing of the
   partitions is left allocated. *)
C34_CountsCheck ==
    /\ CountsChecked =>
           /\ LastStep.note = "counts" <=>
                  \/ LastStep.step = "root" /\ LastHeader.entry_count = 0
                  \/ LastHeader.name_table_size = 0
           /\ LastStep.note = "counts" => (tpc = "load_end" /\ ~Loaded /\ LastNodeFreed)
    /\ (LoadReturned /\ (LoadStepNoted("root", "counts") \/ LoadStepNoted("child", "counts"))) =>
           (~Loaded /\ g_gameCardHfsCtx = NULL /\ heap = {} /\ ~badFree)

(* A card is loaded whose last partition has a header with entry count 0. *)
C34_Witness ==
    /\ Loaded
    /\ tpc = "wait"
    /\ g_gameCardHfsCount = MaxChildren + 1
    /\ g_gameCardHfsCtx[g_gameCardHfsCount] # NULL
    /\ g_gameCardHfsCtx[g_gameCardHfsCount].header.entry_count = 0
    /\ g_gameCardHfsCtx[g_gameCardHfsCount].header.name_table_size # 0

(* Node j + 1 of the array is the partition of entry j of the root node. *)
ChildOfEntry(root, node, e) ==
    /\ node # NULL
    /\ node.name = e.name
    /\ node.type = HfsPartitionType(e.name)
    /\ node.offset = U64(root.offset + root.header_size + e.offset)
    /\ node.size = e.size

(* C35: whenever the status is InsertedAndInfoLoaded, slot 0 of g_gameCardHfsCtx holds
   the root partition (name "root", type Root) and slot j + 1, for every entry j of the
   root partition, the partition parsed from that entry, in the order of the table: its
   offset is the root offset + the root header size + the offset of the entry, its size
   the size of the entry.  The size of the root partition is its header size + the offset
   + the size of its last entry.  The sums are those of u64. *)
C35_FlatArray ==
    (Loaded /\ ~InFreeInfo) =>
        /\ g_gameCardHfsCtx # NULL
        /\ g_gameCardHfsCtx[1] # NULL
        /\ g_gameCardHfsCtx[1].name = "root"
        /\ g_gameCardHfsCtx[1].type = GameCardHashFileSystemPartitionType_Root
        /\ Len(g_gameCardHfsCtx) = g_gameCardHfsCtx[1].header.entry_count + 1
        /\ \A j \in 1..g_gameCardHfsCtx[1].header.entry_count :
               ChildOfEntry(g_gameCardHfsCtx[1], g_gameCardHfsCtx[j + 1],
                            g_gameCardHfsCtx[1].header.entries[j])
        /\ g_gameCardHfsCtx[1].size =
               U64(g_gameCardHfsCtx[1].header_size
                   + g_gameCardHfsCtx[1].header.entries[g_gameCardHfsCtx[1].header.entry_count].offset
                   + g_gameCardHfsCtx[1].header.entries[g_gameCardHfsCtx[1].header.entry_count].size)

(* A card with MaxChildren partitions is loaded: the last of them starts one child slot
   after the end of the root header. *)
C35_Witness ==
    /\ Loaded
    /\ g_gameCardHfsCount = MaxChildren + 1
    /\ g_gameCardHfsCtx[MaxChildren + 1] # NULL
    /\ g_gameCardHfsCtx[1].header.entries[MaxChildren].offset = (MaxChildren - 1) * CHILD_SLOT
    /\ g_gameCardHfsCtx[MaxChildren + 1].offset =
           ROOT_ADDR + GAMECARD_PAGE_SIZE + ((MaxChildren - 1) * CHILD_SLOT)
    /\ g_gameCardHfsCtx[MaxChildren + 1].name = ChildNames[MaxChildren]

(* A client is inside the SCOPED_LOCK block of a public function: what the state holds is
   what the caller is given. *)
InCall == \E c \in Clients : cpc[c] \in {"query", "read", "keyarea"}

(* The transport at its best: every open, read and allocation succeeds. *)
BestOracle ==
    [inserted |-> TRUE, retry |-> [fails |-> 0, at |-> "handle"], opens |-> MaxOpens,
     reads |-> MaxReads, allocs |-> ALLOCS_PER_CONTEXT]

(* One of the getters or of the partition lookups succeeds. *)
SomeGetterSucceeds ==
    \/ gamecardGetHeader(TRUE).ok
    \/ gamecardGetTotalSize(TRUE).ok
    \/ gamecardGetRomCapacity(TRUE).ok
    \/ gamecardReadInitialData(X, TRUE, BestOracle, "found").ok
    \/ \E t \in 0..(GameCardHashFileSystemPartitionType_Count - 1) :
           gamecardGetHashFileSystemContext(t, TRUE).ok

(* C36: a caller gets a success from gamecardGetHeader, gamecardGetTotalSize,
   gamecardGetRomCapacity, gamecardGetKeyArea or a partition lookup (the functions with
   the test of gamecardGetHeader) only with the interface initialized and the status
   InsertedAndInfoLoaded; gamecardGetStatus gives NotInserted while the interface is not
   initialized; and with any other status than InsertedAndInfoLoaded the sizes of the
   areas are 0 in every state a caller gets to see, so that gamecardReadStorage fails
   there, without a call to the transport. *)
C36_CallsNeedLoadedInfo ==
    /\ (InCall /\ SomeGetterSucceeds) => (g_gameCardInterfaceInit /\ Loaded)
    /\ (InCall /\ ~g_gameCardInterfaceInit) => gamecardGetStatus.val = GameCardStatus_NotInserted
    /\ (InCall /\ ~Loaded) =>
           /\ g_gameCardNormalAreaSize = 0 /\ g_gameCardSecureAreaSize = 0
           /\ g_gameCardTotalSize = 0
    /\ \A c \in Clients : (cpc[c] = "read" /\ ~Loaded) => (~call.ok /\ call.ops = <<>>)

(* gamecardReadStorage has failed for a non-empty read into a buffer, the status being
   InsertedAndInfoNotLoaded after a load that failed. *)
C36_Witness ==
    /\ \E c \in Clients : cpc[c] = "read"
    /\ g_gameCardInterfaceInit
    /\ g_gameCardStatus = GameCardStatus_InsertedAndInfoNotLoaded
    /\ call.out /\ call.size = GAMECARD_PAGE_SIZE /\ call.offset = 0
    /\ ~call.ok /\ call.ops = <<>>

(* At most one detection thread runs and at most one scratch buffer is allocated. *)
OneThreadOneBuffer == iface.threads <= 1 /\ Cardinality(iface.bufs) <= 1

(* gamecardInitialize has returned, having been called with the interface initialized. *)
InitializeRepeated == iface.fn = "gamecardInitialize" /\ iface.was

(* Nothing of the interface is left: no thread, no handle or session open, no buffer. *)
IfaceReleased ==
    /\ ~iface.thread /\ iface.threads = 0
    /\ ~iface.kevent /\ iface.kevents = 0
    /\ ~iface.notifier /\ iface.notifiers = 0
    /\ ~iface.devop /\ iface.devops = 0
    /\ iface.readbuf = 0 /\ iface.bufs = {}
    /\ ~iface.init
    /\ gamecardGetStatusFrom(iface) = GameCardStatus_NotInserted

(* C37: after any sequence of calls of gamecardInitialize (succeeding, or failing at any
   of its steps) and of gamecardExit, at most one detection thread and at most one
   allocation of the scratch buffer exist; a call of gamecardInitialize with the
   interface initialized returns true and allocates, opens and creates nothing; and when
   gamecardExit has returned the thread is joined, the kernel event, the event notifier
   and the device operator are closed, the scratch buffer is freed, the flag is false
   and gamecardGetStatus gives NotInserted. *)
C37_LifeCycle ==
    /\ OneThreadOneBuffer
    /\ InitializeRepeated => (iface.ret /\ iface.did = {})
    /\ iface.fn = "gamecardExit" => IfaceReleased

(* The same, as long as gamecardInitialize was never called again after it had failed
   part-way with no gamecardExit in between: the calls the code is right about. *)
C37_UnlessReinitialized == iface.reinit \/ C37_LifeCycle

(* The call made by the step has succeeded: it has set no errno. *)
CallSucceeds == hfsdev'.errno = NO_ERROR

(* Where the seek of the step is meant to go: pos from 0, from the offset or from the size
   of the entry, as the integer it is. *)
SeekTarget ==
    hfsdev'.op.pos + (IF hfsdev'.op.dir = "SEEK_SET" THEN 0
                      ELSE IF hfsdev'.op.dir = "SEEK_CUR" THEN hfsdev.file.offset
                      ELSE hfsdev.file.hfs_entry.size)

(* The seek of the step is one that must fail. *)
SeekInvalid ==
    \/ hfsdev'.op.dir \notin Whences
    \/ SeekTarget < 0
    \/ SeekTarget > hfsdev.file.hfs_entry.size

(* A step of hfsdev_read: the offset advances by len if it succeeds, and stays if not. *)
ReadStepRight ==
    hfsdev'.op.name = "read" =>
        hfsdev'.file.offset = (IF CallSucceeds THEN hfsdev.file.offset + hfsdev'.op.len
                               ELSE hfsdev.file.offset)

(* A step of hfsdev_seek: the seeks that must fail do, a failed one leaves the offset, a
   successful one sets it to the target, inside the entry. *)
SeekStepRight ==
    hfsdev'.op.name = "seek" =>
        /\ SeekInvalid => ~CallSucceeds
        /\ ~CallSucceeds => hfsdev'.file.offset = hfsdev.file.offset
        /\ CallSucceeds =>
              /\ hfsdev'.file.offset = SeekTarget
              /\ 0 <= hfsdev'.file.offset
              /\ hfsdev'.file.offset <= hfsdev.file.hfs_entry.size

(* A step of another call on the open file or on the device leaves the offset. *)
OtherStepRight ==
    hfsdev'.op.name \notin {"read", "seek", "open", "close"} =>
        hfsdev'.file.offset = hfsdev.file.offset

(* C38: the offset of an open file (hfsdev_open starts it at 0, hfsdev_close ends it)
   changes only in a call of hfsdev_read that succeeds, by len exactly, and in a call of
   hfsdev_seek that succeeds; a read that fails and a seek that fails (whence not one of
   the three, result below 0 or result above the size of the entry) leave it as it is;
   and a seek that succeeds leaves 0 <= offset <= size of the entry, the offset being pos
   from 0, from the offset before or from the size of the entry for SEEK_SET, SEEK_CUR
   and SEEK_END. *)
C38_FileOffset == [][ReadStepRight /\ SeekStepRight /\ OtherStepRight]_hfsdev

(* The seek of the step has a pos or a target for which -pos or offset + pos overflows
   off_t. *)
SeekOverflows ==
    /\ hfsdev'.op.name = "seek" /\ hfsdev'.op.dir \in Whences
    /\ (hfsdev'.op.pos = OFF_MIN \/ ~InOff(SeekTarget))

(* The same for the seeks whose arithmetic does not overflow. *)
C38_UnlessOverflow ==
    [][ReadStepRight /\ OtherStepRight /\ (SeekOverflows \/ SeekStepRight)]_hfsdev

(* What a full listing of the directory gives: ".", "..", and the names of the entries of
   the partition in the order of their indices. *)
FullListing == <<<<".">>, <<".", ".">>>> \o [j \in 1..Len(hfsdev.fs_ctx) |-> hfsdev.fs_ctx[j].name]

(* The names given since the directory was opened or reset are the first of the listing. *)
ListedInOrder ==
    /\ Len(hfsdev.listed) <= Len(FullListing)
    /\ \A k \in 1..Len(hfsdev.listed) : hfsdev.listed[k] = FullListing[k]

(* hfsdev_dirnext was called, with a name buffer and a stat structure. *)
DirNextCalled ==
    hfsdev.op.name = "dirnext" /\ hfsdev.op.filename /\ hfsdev.op.filestat

(* The call fails only when everything is listed, and then with ENOENT. *)
DirNextEnds ==
    (DirNextCalled /\ hfsdev.errno # NO_ERROR) =>
        (hfsdev.errno = "ENOENT" /\ hfsdev.ret = -1 /\ hfsdev.listed = FullListing)

(* A step of hfsdev_dirnext: it gives one more name, or, everything being listed, changes
   nothing of the directory. *)
DirNextStep ==
    (hfsdev'.op.name = "dirnext" /\ hfsdev'.op.filename /\ hfsdev'.op.filestat) =>
        IF hfsdev.listed = FullListing
        THEN hfsdev'.errno = "ENOENT" /\ hfsdev'.dir = hfsdev.dir /\ hfsdev'.listed = hfsdev.listed
        ELSE hfsdev'.errno = NO_ERROR /\ Len(hfsdev'.listed) = Len(hfsdev.listed) + 1

(* The paths of the root of the device. *)
RootPaths == {path \in DevPaths : hfsdev_get_truncated_path(path) = [errno |-> NO_ERROR, path |-> <<>>]}

(* hfsdev_diropen has failed with ENOENT and has left the directory state alone. *)
DirOpenDenied == hfsdev.errno = "ENOENT" /\ hfsdev.ret = 0 /\ ~hfsdev.dirp

(* The statement as it was made: whatever path is not the root is denied with ENOENT. *)
C39_AnyPathDenied ==
    /\ [](ListedInOrder /\ DirNextEnds)
    /\ [][DirNextStep]_hfsdev
    /\ []((hfsdev.op.name = "diropen" /\ hfsdev.op.path \notin RootPaths) => DirOpenDenied)

(* hfsdev_diropen was called with a path that hfsdev_get_truncated_path accepts and that
   is not the root. *)
DirOpenOfEntry ==
    /\ hfsdev.op.name = "diropen"
    /\ hfsdev_get_truncated_path(hfsdev.op.path).errno = NO_ERROR
    /\ hfsdev.op.path \notin RootPaths

(* hfsdev_diropen was called with a path that hfsdev_get_truncated_path rejects. *)
DirOpenMalformed ==
    /\ hfsdev.op.name = "diropen"
    /\ hfsdev_get_truncated_path(hfsdev.op.path).errno # NO_ERROR

(* C39: after hfsdev_diropen on the root and after hfsdev_dirreset, the calls of
   hfsdev_dirnext give ".", then "..", then the names of entries 0..N-1 of the partition
   in the order of the indices, each once, and every call after that fails with ENOENT
   and leaves the directory state as it is; hfsdev_diropen fails with ENOENT on every
   path that is well formed and not the root, and with the error of
   hfsdev_get_truncated_path (EINVAL, EILSEQ or ENAMETOOLONG) on a malformed one. *)
C39_DirListing ==
    /\ [](ListedInOrder /\ DirNextEnds)
    /\ [][DirNextStep]_hfsdev
    /\ [](DirOpenOfEntry => DirOpenDenied)
    /\ [](DirOpenMalformed =>
            /\ hfsdev.errno = hfsdev_get_truncated_path(hfsdev.op.path).errno
            /\ hfsdev.errno \in {"EINVAL", "EILSEQ", "ENAMETOOLONG"}
            /\ hfsdev.ret = 0 /\ ~hfsdev.dirp)

(* The directory of a partition of two entries is listed in full, and one more call of
   hfsdev_dirnext has failed with ENOENT. *)
C39_Witness ==
    /\ DirNextCalled /\ hfsdev.errno = "ENOENT"
    /\ Len(hfsdev.fs_ctx) = 2
    /\ hfsdev.listed = <<<<".">>, <<".", ".">>, <<"a">>, <<"b", "c">>>>
    /\ hfsdev.dir = [state |-> 2, index |-> 2]

(* The last call was made with a path that is well formed and names no entry of the
   partition. *)
NoSuchEntry ==
    /\ hfsdev_get_truncated_path(hfsdev.op.path).errno = NO_ERROR
    /\ hfsGetEntryIndexByName(hfsdev.fs_ctx, hfsdev_get_truncated_path(hfsdev.op.path).path) < 0

(* hfsdev_stat was called for such a path, with a stat structure. *)
StatOfNoEntry == hfsdev.op.name = "stat" /\ hfsdev.op.st /\ NoSuchEntry

(* hfsdev_open was called for such a path. *)
OpenOfNoEntry == hfsdev.op.name = "open" /\ hfsdev.op.fd /\ NoSuchEntry

(* The call has returned -1 with ENOENT. *)
ReportsENOENT == ~hfsdev.fault /\ hfsdev.errno = "ENOENT" /\ hfsdev.ret = -1

(* C40: hfsdev_stat for a name that no entry of the partition has reports ENOENT and
   fills the stat structure from no entry: hfsdev_fill_stat is never called with a null
   entry; and hfsdev_open for such a name reports ENOENT. *)
C40_StatOfMissingName ==
    /\ StatOfNoEntry => (ReportsENOENT /\ hfsdev.st = NoStat)
    /\ hfsdev.fill # "null"
    /\ OpenOfNoEntry => ReportsENOENT

(* What holds of the two calls: hfsdev_open reports ENOENT and leaves the file state
   zeroed, and hfsdev_stat reports ENOENT if it returns. *)
C40_ReportsIfReturns ==
    /\ OpenOfNoEntry => (ReportsENOENT /\ hfsdev.file = ZeroFile)
    /\ (StatOfNoEntry /\ ~hfsdev.fault) => ReportsENOENT
    /\ hfsdev.fill = "null" => StatOfNoEntry

(* gamecardExit has signalled the exit event and waits in utilsJoinThread. *)
ExitJoining ==
    g_gameCardDetectionThreadCreated /\ \E c \in Clients : cpc[c] = "exit"

(* C12: once gamecardExit has signalled the exit event, the detection thread leaves its
   loop, releases the card state and terminates, and the join returns, under every
   interleaving.  Stated on states: while gamecardExit waits in the join, the detection
   thread has terminated or can make its next step; no state is reached in which the join
   can never return. *)
C12_ExitJoinReturns == ExitJoining => (tpc = "done" \/ ENABLED DetectionThread)

Next ==
    \/ CardInsert
    \/ CardRemove
    \/ CardReseat
    \/ DetectionThread
    \/ \E c \in Clients :
         \/ Initialize(c) \/ ExitBegin(c) \/ ExitEnd(c)
         \/ QueryBegin(c) \/ ReadBegin(c) \/ KeyAreaBegin(c) \/ CallEnd(c)

Spec == Init /\ [][Next]_vars

(* gamecardLoadInfo for a card of ReadCards. *)
ReadLoad == LoadInfo /\ card' \in ReadCards \cup {NoCard}

ReadNext ==
    \/ DetLock \/ DetCheck \/ DetSignal \/ ReadLoad
    \/ \E c \in Clients : Initialize(c) \/ ReadApply(c) \/ CallEnd(c)

ReadSpec == Init /\ [][ReadNext]_vars

====
